---- MODULE Spec2Model ----
(***************************************************************************)
(* Catalog synchronisation core of bole-to-1.                              *)
(*                                                                         *)
(* Part I   : the client outbox and SyncReconciler.processOutbox           *)
(*            (src/src/lib/sync/reconciler.ts).                            *)
(* Part II  : the Prisma client with the soft-delete extension             *)
(*            (src/unnamed/part_001).                                      *)
(* Part III : PATCH /api/library/[id]/progress, the progress transaction   *)
(*            (src/src/app/api/library/[id]/progress/route.ts), and        *)
(*            reconcileUserStats.                                          *)
(* Part IV  : adding to and removing from the library                      *)
(*            (src/src/app/api/library/route.ts, src/unnamed/part_003,     *)
(*            src/src/lib/actions/library-actions.ts).                     *)
(* Part V   : worker jobs and the dead-letter queue (src/unnamed/part_000).*)
(* Part VI  : withRetry and isTransientError (src/unnamed/part_001).       *)
(* Part VII : the crawl scheduler (spec.md section 4.3).                   *)
(* Part VIII: isIpInRange, the CIDR check of validateInternalToken         *)
(*            (src/unnamed/part_000).                                      *)
(* Part IX  : chapter ingestion (spec.md section 4.4).                     *)
(* Part X   : gap recovery (spec.md section 4.5).                          *)
(* Part XI  : the per-source rate limiter (spec.md section 4.1).           *)
(* Part XII : the updateProgress server action beside the PATCH route.     *)
(* Part XIII: the version-keyed cache of the activity feed.                *)
(* Part XIV : paging through the updates feed.                             *)
(* Part XV  : checkRateLimit, over Redis and in memory.                    *)
(* Part XVI : processResolution merging a duplicate library entry.         *)
(***************************************************************************)
EXTENDS Integers, Sequences, FiniteSets, TLC

VARIABLES
    outbox,     \* SyncOutbox storage: sequence of queued actions, in insertion order
    nextId,     \* number of actions enqueued so far (ids are 1..nextId)
    pass,       \* per invocation of processOutbox: its position and its snapshot
    event,      \* what the last step did (observation only)
    catalog,    \* which chapter numbers of the series have a LogicalChapter / a legacy Chapter row
    db,         \* committed rows: the user profile, the library entry, the read rows
    req,        \* the progress requests: payload, position in the transaction, what it read
    started,    \* transactions begun so far: the server clock behind NOW()
    lastDone,   \* payload of the request that committed last (observation only)
    recon,      \* reconcileUserStats: its position and the sum it has read
    entries,    \* library_entries of the series: per user the row (entry id = its owner)
    total_follows, \* series.total_follows
    lreq,       \* the library requests (add, remove): position, what they read, answer
    call,       \* the last call on the extended Prisma client and its result (observation only)
    jobs,       \* the jobs of one BullMQ queue: options, failed attempts so far, state
    workerFailure, \* rows of the WorkerFailure table (the dead-letter queue), in insertion order
    retry,      \* one call of withRetry: its loop counter, the invocations made, its result
    sources,    \* series_sources: per source the tier of its series and its next_check_at
    waiting,    \* waiting count of the crawl queue
    sched,      \* the master scheduler: runs made, and what the last run enqueued
    ipq,        \* one call of isIpInRange: its arguments and its answer
    logicalChapters,  \* LogicalChapter rows of the series: per chapter number their count
    chapterSources,  \* ChapterSource rows: per (source, chapter of that source) their count
    feedEntries,  \* FeedEntry rows: per chapter number their count
    ing,        \* the ingestion calls: the report, the position, the rows staged in the transaction
    gap,        \* one run of gap recovery: the chapter numbers it fetched and its result
    bucket,      \* the token state of one source in the shared store
    clock,       \* the time, in ticks of 100 ms
    acq,         \* each crawl worker: idle or suspended in acquireToken
    grants,      \* the acquisitions that returned, in order
    calls,      \* the number of acquireToken calls made
    act,        \* the library entry and profile as the updateProgress server action leaves them
    feedDb,      \* the number of progress updates of the user that are committed
    fver,        \* the redis key feed:v:<user>; 0 stands for an absent key
    fcache,      \* the cached activity feed responses, by version: the database state each was computed from
    patch,       \* the progress request as far as the feed cache is concerned
    gets,       \* the GET /api/feed/activity requests
    pg,         \* a client paging through GET /api/feed/updates: the feed, the limit, the cursor it holds, what it was served
    rl,         \* checkRateLimit on one key: the redis counter, the in-memory record, the clock and the last decisions
    mg          \* processResolution merging a library entry into a duplicate: both entries, the job position and what it read

ovars == <<outbox, nextId, pass, event>>

pvars == <<catalog, db, req, started, lastDone, recon>>

lvars == <<entries, total_follows, lreq, call>>

wvars == <<jobs, workerFailure>>

rvars == <<retry>>

svars == <<sources, waiting, sched>>

ivars == <<ipq>>

nvars == <<logicalChapters, chapterSources, feedEntries, ing>>

gvars == <<gap>>

tvars == <<bucket, clock, acq, grants, calls>>

avars == <<act>>

fvars == <<feedDb, fver, fcache, patch, gets>>

uvars == <<pg>>

kvars == <<rl>>

mvars == <<mg>>

yvars == <<ivars, nvars, gvars, tvars, avars, fvars, fvars, uvars, kvars, mvars>>

\* the workers' state: the state beside the outbox and the requests
zvars == <<wvars, rvars, svars, yvars>>

\* the state of parts I to VII
qvars == <<ovars, pvars, lvars, wvars, rvars, svars>>

\* the state beside the outbox and the progress transaction
xvars == <<lvars, zvars>>

vars == <<ovars, pvars, xvars>>

(***************************************************************************)
(* Bounds and program constants                                            *)
(***************************************************************************)
MAX_RETRIES == 5

MaxActions == 2

MaxRequests == 2

MaxChapter == 2

MaxLibRequests == 2

MaxJobs == 2

MaxAttempts == 3

\* withRetry(operation, maxRetries = 3, baseDelayMs = 200)
maxRetries == 3

MaxTime == 2

MaxIngests == 2

MaxNumber == 4

MaxClock == 4

MaxCalls == 12

MaxUpdates == 2

MaxGets == 2

MaxFeed == 4

MaxLimit == 3

MaxPages == 4

MaxAllowed == 2

MaxWindow == 2

MaxNow == 4

MaxAsked == 4

XP_PER_CHAPTER == 10

\* retry counts are capped one above the ceiling: enough to see an overshoot
RetryCap == MAX_RETRIES + 1

PassIds == {1, 2}

ActionTypes ==
    {"CHAPTER_READ", "LIBRARY_UPDATE", "LIBRARY_DELETE", "LIBRARY_ADD", "SETTING_UPDATE"}

\* HTTP answers as the reconciler distinguishes them; "throw" is a rejected fetch
Statuses == {"ok", "notFound", "conflict", "error", "throw"}

(***************************************************************************)
(* SyncOutbox (lib/sync/outbox.ts)                                         *)
(***************************************************************************)
NewAction(id, type, ts) ==
    [id |-> id, type |-> type, timestamp |-> ts, retryCount |-> 0]

getActions(ob) == ob

dequeue(ob, id) == SelectSeq(ob, LAMBDA a : a.id # id)

updateRetry(ob, id) ==
    [i \in 1..Len(ob) |->
        IF ob[i].id = id THEN [ob[i] EXCEPT !.retryCount = @ + 1] ELSE ob[i]]

Ids(s) == {s[i].id : i \in 1..Len(s)}

Range(s) == {s[i] : i \in 1..Len(s)}

(***************************************************************************)
(* processOutbox: snapshot, sort, partition                                *)
(***************************************************************************)
RECURSIVE InsertByTimestamp(_, _)
InsertByTimestamp(s, a) ==
    IF s = <<>> THEN <<a>>
    ELSE IF a.timestamp < s[Len(s)].timestamp
         THEN Append(InsertByTimestamp(SubSeq(s, 1, Len(s) - 1), a), s[Len(s)])
         ELSE Append(s, a)

RECURSIVE StableSort(_)
StableSort(s) ==
    IF s = <<>> THEN <<>>
    ELSE InsertByTimestamp(StableSort(SubSeq(s, 1, Len(s) - 1)), s[Len(s)])

RECURSIVE Reverse(_)
Reverse(s) == IF s = <<>> THEN <<>> ELSE Append(Reverse(Tail(s)), Head(s))

\* the comparator the wrong way round: (a, b) => b.timestamp - a.timestamp
SortDescending(s) == Reverse(StableSort(s))

\* [...actions].sort((a, b) => a.timestamp - b.timestamp)
sortedActions(s) == StableSort(s)

chapterReadActions(sorted) == SelectSeq(sorted, LAMBDA a : a.type = "CHAPTER_READ")

\* the rest collected newest first
OthersNewestFirst(sorted) == Reverse(SelectSeq(sorted, LAMBDA a : a.type # "CHAPTER_READ"))

otherActions(sorted) == SelectSeq(sorted, LAMBDA a : a.type # "CHAPTER_READ")

IdlePass == [pc |-> "idle", cr |-> <<>>, others |-> <<>>, idx |-> 1, tried |-> <<>>]

Resting(p) == pass[p].pc \in {"idle", "done"}

(***************************************************************************)
(* processOutbox: the sequential loop                                      *)
(***************************************************************************)
\* if (action.retryCount >= MAX_RETRIES) { ...; continue; }
Skipped(a) == a.retryCount >= MAX_RETRIES

RECURSIVE NextAttempt(_, _)
NextAttempt(others, i) ==
    IF i > Len(others) THEN i
    ELSE IF Skipped(others[i]) THEN NextAttempt(others, i + 1)
    ELSE i

\* run the for-loop from position rec.idx up to its next await (or its end)
Advance(rec) ==
    LET j == NextAttempt(rec.others, rec.idx)
    IN  IF j > Len(rec.others)
        THEN [rec EXCEPT !.pc = "done", !.idx = j]
        ELSE [rec EXCEPT !.pc = "await", !.idx = j,
                         !.tried = Append(@, rec.others[j].id)]

AbortPass(rec) == [rec EXCEPT !.pc = "done"]

\* the loop goes on with the next action after one was handled
ContinueLoop(rec) == Advance([rec EXCEPT !.idx = @ + 1])

\* else / catch branch of the loop body: updateRetry was called, the loop goes on
AfterFailure(rec) == ContinueLoop(rec)

\* after the batch block the loop starts at the first sequential action
EnterLoop(rec) == Advance([rec EXCEPT !.idx = 1])

(***************************************************************************)
(* executeAction and its handlers: does this answer count as success?      *)
(***************************************************************************)
handleChapterRead(status) == status \in {"ok", "conflict"}

handleLibraryUpdate(status) == status = "ok"

handleLibraryDelete(status) == status \in {"ok", "notFound"}

handleLibraryAdd(status) == status = "ok"

handleSettingUpdate(status) == status = "ok"

AlwaysSuccess(type, status) == TRUE

executeAction(type, status) ==
    CASE type = "CHAPTER_READ"   -> handleChapterRead(status)
      [] type = "LIBRARY_UPDATE" -> handleLibraryUpdate(status)
      [] type = "LIBRARY_DELETE" -> handleLibraryDelete(status)
      [] type = "LIBRARY_ADD"    -> handleLibraryAdd(status)
      [] type = "SETTING_UPDATE" -> handleSettingUpdate(status)
      [] OTHER                   -> TRUE

(***************************************************************************)
(* the batch block                                                         *)
(***************************************************************************)
RECURSIVE ApplyResults(_, _)
ApplyResults(ob, results) ==
    IF results = <<>> THEN ob
    ELSE ApplyResults(
            IF Head(results).status = "success"
            THEN dequeue(ob, Head(results).id)
            ELSE updateRetry(ob, Head(results).id),
            Tail(results))

RECURSIVE StopAtFirstFailure(_, _)
StopAtFirstFailure(ob, results) ==
    IF results = <<>> THEN ob
    ELSE IF Head(results).status = "success"
         THEN StopAtFirstFailure(dequeue(ob, Head(results).id), Tail(results))
         ELSE updateRetry(ob, Head(results).id)

\* for (const res of results) { success ? dequeue : updateRetry }
applyBatchResults(ob, results) == ApplyResults(ob, results)

RECURSIVE RetryAll(_, _)
RetryAll(ob, actions) ==
    IF actions = <<>> THEN ob
    ELSE RetryAll(updateRetry(ob, Head(actions).id), Tail(actions))

\* only the first action of the batch is retried
RetryHead(ob, actions) ==
    IF actions = <<>> THEN ob ELSE updateRetry(ob, Head(actions).id)

\* chapterReadActions.forEach(a => SyncOutbox.updateRetry(a.id))
retryBatch(ob, actions) == RetryAll(ob, actions)

\* the replay endpoint answers one {id, status} per action it was sent
BatchResults(cr) ==
    {[i \in 1..Len(cr) |-> [id |-> cr[i].id, status |-> f[cr[i].id]]] :
        f \in [Ids(cr) -> {"success", "failure"}]}

Failed(results) == {results[i].id : i \in {j \in 1..Len(results) : results[j].status # "success"}}

Succeeded(results) == {results[i].id : i \in {j \in 1..Len(results) : results[j].status = "success"}}

\* the model's cap on retry counters
CanRetry(ids) == \A a \in Range(outbox) : a.id \in ids => a.retryCount < RetryCap

NoEvent == [kind |-> "none", pass |-> 0, id |-> 0, status |-> "none", results |-> <<>>]

Ev(kind, p, id, status, results) ==
    [kind |-> kind, pass |-> p, id |-> id, status |-> status, results |-> results]

(***************************************************************************)
(* Outbox actions                                                          *)
(***************************************************************************)
\* Date.now() at the n-th enqueue: the clock advances between two enqueues
Now(n) == 10 * n

\* SyncOutbox.enqueue(type, payload): timestamp is Date.now(), retryCount 0
Enqueue(type) ==
    /\ nextId < MaxActions
    /\ nextId' = nextId + 1
    /\ outbox' = Append(outbox, NewAction(nextId + 1, type, Now(nextId + 1)))
    /\ event' = NoEvent
    /\ UNCHANGED <<pass, pvars, xvars>>

\* processOutbox up to its first await. The early returns (no window, offline, an
\* empty outbox) change nothing and are stuttering steps.
StartPass(p) ==
    /\ Resting(p)
    /\ Len(getActions(outbox)) > 0
    /\ LET sorted == sortedActions(getActions(outbox))
           rec == [pc |-> "batch", cr |-> chapterReadActions(sorted),
                   others |-> otherActions(sorted), idx |-> 1, tried |-> <<>>]
       IN  pass' = [pass EXCEPT ![p] = IF Len(rec.cr) > 0 THEN rec ELSE EnterLoop(rec)]
    /\ event' = NoEvent
    /\ UNCHANGED <<outbox, nextId, pvars, xvars>>

\* response.ok with per-item results
BatchOk(p) ==
    /\ pass[p].pc = "batch"
    /\ \E results \in BatchResults(pass[p].cr) :
        /\ CanRetry(Failed(results))
        /\ outbox' = applyBatchResults(outbox, results)
        /\ event' = Ev("batchOk", p, 0, "ok", results)
    /\ pass' = [pass EXCEPT ![p] = EnterLoop(pass[p])]
    /\ UNCHANGED <<nextId, pvars, xvars>>

\* !response.ok, or fetch / response.json() threw
BatchFail(p) ==
    /\ pass[p].pc = "batch"
    /\ CanRetry(Ids(pass[p].cr))
    /\ \E status \in {"error", "throw"} :
        event' = Ev("batchFail", p, 0, status, <<>>)
    /\ outbox' = retryBatch(outbox, pass[p].cr)
    /\ pass' = [pass EXCEPT ![p] = EnterLoop(pass[p])]
    /\ UNCHANGED <<nextId, pvars, xvars>>

\* the awaited executeAction settles: dequeue on success, updateRetry otherwise
SeqResponse(p) ==
    /\ pass[p].pc = "await"
    /\ LET a == pass[p].others[pass[p].idx]
       IN  \E status \in Statuses :
            IF status # "throw" /\ executeAction(a.type, status)
            THEN /\ outbox' = dequeue(outbox, a.id)
                 /\ event' = Ev("seqOk", p, a.id, status, <<>>)
                 /\ pass' = [pass EXCEPT ![p] = ContinueLoop(pass[p])]
            ELSE /\ CanRetry({a.id})
                 /\ outbox' = updateRetry(outbox, a.id)
                 /\ event' = Ev("seqFail", p, a.id, status, <<>>)
                 /\ pass' = [pass EXCEPT ![p] = AfterFailure(pass[p])]
    /\ UNCHANGED <<nextId, pvars, xvars>>

NoPassActive == \A q \in PassIds : Resting(q)

\* an invocation of processOutbox that overlaps no other
SerialStart == NoPassActive /\ StartPass(1)

(***************************************************************************)
(* Part II : the Prisma client with the soft-delete extension (lib/prisma) *)
(*                                                                         *)
(* A table is a function from row ids to rows. A where-clause names the    *)
(* ids it selects and, possibly, a condition on deleted_at.                *)
(***************************************************************************)
Users == {"A", "B"}

\* the user whose profile and library entry the progress transaction works on
Owner == "A"

SOFT_DELETE_MODELS == {"User", "Series", "Chapter", "LibraryEntry"}

\* the models the calls of the model go to; UserChapterRead is not soft-deleted
Models == SOFT_DELETE_MODELS \cup {"UserChapterRead"}

ReadOperations ==
    {"findUnique", "findUniqueOrThrow", "findFirst", "findFirstOrThrow",
     "findMany", "count", "aggregate", "groupBy"}

WriteOperations == {"create", "delete", "deleteMany", "update", "updateMany", "upsert"}

NULL == "null"

\* new Date()
SomeDate == "date"

NoEntry == [exists |-> FALSE, deleted_at |-> NULL]

LiveEntry == [exists |-> TRUE, deleted_at |-> NULL]

Where(ids, cond) == [ids |-> ids, deleted_at |-> cond]

\* args of a call: the where-clause and what the data / update part sets deleted_at to
Args(where, data) == [where |-> where, data |-> data]

\* the rows a where-clause selects
Matches(tbl, where) ==
    {e \in where.ids :
        /\ tbl[e].exists
        /\ \/ where.deleted_at = "any"
           \/ where.deleted_at = "null" /\ tbl[e].deleted_at = NULL
           \/ where.deleted_at = "notNull" /\ tbl[e].deleted_at # NULL}

SetDeletedAt(row, data) == IF data = "keep" THEN row ELSE [row EXCEPT !.deleted_at = data]

Result(tbl, rows, error) ==
    [table |-> tbl, rows |-> rows, count |-> Cardinality(rows), error |-> error]

\* query(args): the operation as PostgreSQL executes it
query(tbl, operation, args) ==
    LET m == Matches(tbl, args.where)
    IN  CASE operation \in ReadOperations ->
                IF operation \in {"findUniqueOrThrow", "findFirstOrThrow"} /\ m = {}
                THEN Result(tbl, {}, "P2025")
                ELSE Result(tbl, m, "none")
          [] operation = "create" ->
                IF \E e \in args.where.ids : tbl[e].exists
                THEN Result(tbl, {}, "P2002")
                ELSE Result([e \in DOMAIN tbl |->
                                IF e \in args.where.ids THEN LiveEntry ELSE tbl[e]],
                            args.where.ids, "none")
          [] operation = "delete" ->
                IF m = {} THEN Result(tbl, {}, "P2025")
                ELSE Result([e \in DOMAIN tbl |-> IF e \in m THEN NoEntry ELSE tbl[e]],
                            m, "none")
          [] operation = "deleteMany" ->
                Result([e \in DOMAIN tbl |-> IF e \in m THEN NoEntry ELSE tbl[e]], m, "none")
          [] operation = "update" ->
                IF m = {} THEN Result(tbl, {}, "P2025")
                ELSE Result([e \in DOMAIN tbl |->
                                IF e \in m THEN SetDeletedAt(tbl[e], args.data) ELSE tbl[e]],
                            m, "none")
          [] operation = "updateMany" ->
                Result([e \in DOMAIN tbl |->
                            IF e \in m THEN SetDeletedAt(tbl[e], args.data) ELSE tbl[e]],
                       m, "none")
          [] operation = "upsert" ->
                Result([e \in DOMAIN tbl |->
                            IF e \in m THEN SetDeletedAt(tbl[e], args.data)
                            ELSE IF e \in args.where.ids THEN LiveEntry
                            ELSE tbl[e]],
                       args.where.ids, "none")

\* the extension without its read filter
NoReadFilter(where) == where

\* args.where = { ...args.where, deleted_at: null }
LiveOnly(where) == [where EXCEPT !.deleted_at = "null"]

\* the extension without the delete interception: the row is removed
HardDelete(tbl, operation, args) == query(tbl, operation, args)

\* (client as any)[model].update({ ...args, data: { deleted_at: new Date() } })
softDelete(tbl, operation, args) ==
    query(tbl, IF operation = "delete" THEN "update" ELSE "updateMany",
          Args(args.where, SomeDate))

\* $allOperations({ model, operation, args, query })
allOperations(tbl, model, operation, args) ==
    IF model \notin SOFT_DELETE_MODELS THEN query(tbl, operation, args)
    ELSE CASE operation \in ReadOperations ->
                query(tbl, operation, Args(LiveOnly(args.where), args.data))
           [] operation \in {"delete", "deleteMany"} ->
                softDelete(tbl, operation, args)
           [] operation \in {"update", "updateMany"} ->
                query(tbl, operation, Args(LiveOnly(args.where), args.data))
           [] operation = "upsert" ->
                query(tbl, operation, Args(args.where, NULL))
           [] OTHER -> query(tbl, operation, args)

NoCall == [operation |-> "none", args |-> Args(Where({}, "any"), "keep"),
           rows |-> {}, count |-> 0, error |-> "none"]

\* where-clauses of the calls: a unique id, or any set of ids, with or without a
\* condition on deleted_at of the caller's own
UniqueWheres == {Where({e}, "any") : e \in Users}

Wheres == {Where(ids, cond) : ids \in SUBSET Users, cond \in {"any", "notNull"}}

WheresOf(operation) ==
    IF operation \in {"findUnique", "findUniqueOrThrow", "create", "delete", "update", "upsert"}
    THEN UniqueWheres ELSE Wheres

\* what the data of the call sets deleted_at to (nothing, unless it is an update)
DataOf(operation) ==
    IF operation \in {"update", "updateMany"} THEN {"keep", NULL, SomeDate} ELSE {"keep"}

\* some caller issues one operation on the extended client
ClientCall(model, operation) ==
    \E where \in WheresOf(operation) : \E data \in DataOf(operation) :
        LET args == Args(where, data)
            res == allOperations(entries, model, operation, args)
        IN  /\ entries' = res.table
            /\ call' = [operation |-> operation, args |-> args,
                        rows |-> res.rows, count |-> res.count, error |-> res.error]
            /\ UNCHANGED <<total_follows, lreq, ovars, pvars, zvars>>

\* the where-clause without its user_id: any signed-in user reaches the entry
AnyOwner(u, e) == Where({e}, "any")

\* where: { id: entryId, user_id: user.id }   (the entry of user e has id e)
OwnedBy(u, e) == Where(IF u = e THEN {e} ELSE {}, "any")

(***************************************************************************)
(* Part III: PATCH /api/library/[id]/progress                              *)
(*                                                                         *)
(* One user, one library entry of that user, one series. A request runs    *)
(* prisma.$transaction: three reads, then the writes. The first write      *)
(* (libraryEntry.update) takes the entry's row lock and keeps it until the *)
(* commit, so the write phases of transactions on the same entry never     *)
(* overlap and become visible at once: one step. The reads are separate    *)
(* statements and see whatever is committed when they run.                 *)
(***************************************************************************)
Chapters == 1..MaxChapter

Requests == 1..MaxRequests

\* client-asserted event times
ClientTimes == 1..MaxRequests

\* calculateStreakBonus(newStreak): depends on the profile's streak and the date
StreakBonuses == {0, 5}

NoRow == [present |-> FALSE]

Row(isRead, updatedAt, readAt, source, device, receivedAt) ==
    [present |-> TRUE, is_read |-> isRead, updated_at |-> updatedAt, read_at |-> readAt,
     source_used_id |-> source, device_id |-> device, server_received_at |-> receivedAt]

Payload(chapterNumber, isRead, timestamp, deviceId, sourceId) ==
    [chapterNumber |-> chapterNumber, isRead |-> isRead, timestamp |-> timestamp,
     deviceId |-> deviceId, sourceId |-> sourceId]

NoPayload == Payload(0, FALSE, 0, 0, 0)

NoReq ==
    [pc |-> "new", payload |-> NoPayload, receivedAt |-> 0,
     xp |-> 0, lastRead |-> 0, logical |-> FALSE, alreadyRead |-> FALSE, gained |-> 0,
     caller |-> Owner]

\* addXp(current, gained)
addXp(xp, gained) == xp + gained

\* the comparison with >= instead of >
NotOlderChapter(chapterNumber, currentLastRead) == chapterNumber >= currentLastRead

\* isNewChapter = chapterNumber !== undefined && chapterNumber !== null && chapterNumber > currentLastRead
isNewChapter(chapterNumber, currentLastRead) == chapterNumber > currentLastRead

\* step 3 and its fallback: an is_read V2 row of the logical chapter, or a legacy read row
alreadyRead(d, cat, chapterNumber) ==
    \/ /\ chapterNumber \in cat.logical
       /\ d.reads[chapterNumber].present
       /\ d.reads[chapterNumber].is_read
    \/ chapterNumber \in d.legacyReads

\* shouldAwardXp = isRead && isNewChapter && !alreadyRead
shouldAwardXp(r) ==
    /\ r.payload.isRead
    /\ isNewChapter(r.payload.chapterNumber, r.lastRead)
    /\ ~r.alreadyRead

\* the tie-break the wrong way round: the write received last wins
LastReceivedWins(old, updatedAt, receivedAt) ==
    \/ updatedAt > old.updated_at
    \/ updatedAt = old.updated_at /\ receivedAt > old.server_received_at

\* the comparison the wrong way round: the oldest client timestamp wins
OldestWins(old, updatedAt, receivedAt) ==
    \/ updatedAt < old.updated_at
    \/ updatedAt = old.updated_at /\ receivedAt < old.server_received_at

\* WHERE EXCLUDED.updated_at > t.updated_at
\*    OR (EXCLUDED.updated_at = t.updated_at AND EXCLUDED.server_received_at < t.server_received_at)
UpsertWins(old, updatedAt, receivedAt) ==
    \/ updatedAt > old.updated_at
    \/ updatedAt = old.updated_at /\ receivedAt < old.server_received_at

\* INSERT ... ON CONFLICT (user_id, chapter_id) DO UPDATE SET ... WHERE ...
UpsertRead(old, r) ==
    LET pl == r.payload
    IN  IF ~old.present
        THEN Row(pl.isRead, pl.timestamp, pl.timestamp, pl.sourceId, pl.deviceId, r.receivedAt)
        ELSE IF UpsertWins(old, pl.timestamp, r.receivedAt)
             THEN Row(pl.isRead, pl.timestamp,
                      IF pl.isRead THEN pl.timestamp ELSE old.read_at,
                      pl.sourceId, pl.deviceId, r.receivedAt)
             ELSE old

\* steps 5, 6, 8 and the legacy upsert, as one commit
ApplyWrites(d, cat, r, bonus) ==
    LET pl == r.payload
        award == shouldAwardXp(r)
        totalXpGained == IF award THEN XP_PER_CHAPTER + bonus ELSE 0
    IN  [xp |-> addXp(r.xp, totalXpGained),
         chapters_read |-> d.chapters_read + (IF award THEN 1 ELSE 0),
         last_read_chapter |->
            IF pl.isRead /\ isNewChapter(pl.chapterNumber, r.lastRead)
            THEN pl.chapterNumber ELSE r.lastRead,
         reads |->
            IF r.logical
            THEN [d.reads EXCEPT ![pl.chapterNumber] = UpsertRead(@, r)]
            ELSE d.reads,
         legacyReads |->
            IF pl.isRead /\ pl.chapterNumber \in cat.legacy
            THEN d.legacyReads \cup {pl.chapterNumber} ELSE d.legacyReads]

EmptyDb ==
    [xp |-> 0, chapters_read |-> 0, last_read_chapter |-> 0,
     reads |-> [c \in Chapters |-> NoRow], legacyReads |-> {}]

\* the xp of the signed-in user's profile; only the owner's profile is ever written
ProfileXp(u) == IF u = Owner THEN db.xp ELSE 0

\* the request of user u for the owner's entry arrives; BEGIN fixes NOW();
\* tx.user.findUnique reads the caller's profile
BeginAs(r, pl, u) ==
    /\ r = started + 1
    /\ r \in Requests
    /\ started' = r
    /\ req' = [req EXCEPT ![r] =
                [NoReq EXCEPT !.pc = "user", !.payload = pl, !.receivedAt = r,
                              !.xp = ProfileXp(u), !.caller = u]]
    /\ UNCHANGED <<catalog, db, lastDone, recon, ovars, xvars>>

\* the owner's request
Begin(r, pl) == BeginAs(r, pl, Owner)

\* tx.libraryEntry.findUnique({ where: { id: entryId, user_id: user.id } }) finds the entry
EntryFound(r) ==
    allOperations(entries, "LibraryEntry", "findUnique",
                  Args(OwnedBy(req[r].caller, Owner), "keep")).rows # {}

\* tx.libraryEntry.findUnique
ReadEntry(r) ==
    /\ req[r].pc = "user"
    /\ EntryFound(r)
    /\ req' = [req EXCEPT ![r].pc = "entry", ![r].lastRead = db.last_read_chapter]
    /\ UNCHANGED <<catalog, db, started, lastDone, recon, ovars, xvars>>

\* tx.logicalChapter.findUnique, tx.userChapterReadV2.findUnique, tx.userChapterRead.findFirst
ReadChapter(r) ==
    /\ req[r].pc = "entry"
    /\ req' = [req EXCEPT
                ![r].pc = "chapter",
                ![r].logical = req[r].payload.chapterNumber \in catalog.logical,
                ![r].alreadyRead = alreadyRead(db, catalog, req[r].payload.chapterNumber)]
    /\ UNCHANGED <<catalog, db, started, lastDone, recon, ovars, xvars>>

\* the writes and the commit
Commit(r) ==
    /\ req[r].pc = "chapter"
    /\ EntryFound(r)
    /\ \E bonus \in StreakBonuses :
        /\ db' = ApplyWrites(db, catalog, req[r], bonus)
        /\ req' = [req EXCEPT ![r].pc = "committed",
                              ![r].gained = db'.xp - req[r].xp]
    /\ lastDone' = req[r].payload
    /\ UNCHANGED <<catalog, started, recon, ovars, xvars>>

\* the write statements of the transaction in the order they are issued:
\* libraryEntry.update, user.update, the V2 upsert, the legacy upserts
WriteSteps == 0..4

\* the rows as the transaction sees them after its first k write statements
WritesUpTo(d, cat, r, bonus, k) ==
    LET full == ApplyWrites(d, cat, r, bonus)
    IN  [xp |-> IF k >= 2 THEN full.xp ELSE d.xp,
         chapters_read |-> IF k >= 2 THEN full.chapters_read ELSE d.chapters_read,
         last_read_chapter |-> IF k >= 1 THEN full.last_read_chapter ELSE d.last_read_chapter,
         reads |-> IF k >= 3 THEN full.reads ELSE d.reads,
         legacyReads |-> IF k >= 4 THEN full.legacyReads ELSE d.legacyReads]

\* the statements were issued on the base client: what was written stays
KeepWrites(before, written) == written

\* the callback of prisma.$transaction throws: ROLLBACK, the rows are as before
rollback(before, written) == before

\* a statement throws (profile or entry not found, a write, the activity-score
\* step after all writes): the transaction rolls back
Rollback(r) ==
    /\ req[r].pc \in {"user", "entry", "chapter"}
    /\ \E k \in WriteSteps : \E bonus \in StreakBonuses :
        /\ k > 0 => req[r].pc = "chapter"
        /\ db' = rollback(db, WritesUpTo(db, catalog, req[r], bonus, k))
        /\ req' = [req EXCEPT ![r].pc = "failed"]
    /\ UNCHANGED <<catalog, started, lastDone, recon, ovars, xvars>>

\* if (!entry) throw new ApiError('Library entry not found', 404, ...): rolled back, 404
EntryNotFound(r) ==
    /\ req[r].pc = "user"
    /\ ~EntryFound(r)
    /\ req' = [req EXCEPT ![r].pc = "notFound"]
    /\ db' = rollback(db, db)
    /\ UNCHANGED <<catalog, started, lastDone, recon, ovars, xvars>>

Active(r) == req[r].pc \in {"user", "entry", "chapter"}

(***************************************************************************)
(* SyncReconciler.reconcileUserStats                                       *)
(***************************************************************************)
IdleRecon == [pc |-> "idle", sum |-> 0]

\* _sum.last_read_chapter over the user's live library entries (the model has one)
SumLastReadChapter(d) == d.last_read_chapter

\* prisma.libraryEntry.aggregate({ where: { user_id }, _sum: { last_read_chapter: true } })
ReconcileRead ==
    /\ recon.pc = "idle"
    /\ recon' = [pc |-> "read", sum |-> SumLastReadChapter(db)]
    /\ UNCHANGED <<catalog, db, req, started, lastDone, ovars, xvars>>

\* prisma.user.update({ data: { chapters_read: Number(_sum.last_read_chapter || 0) } })
ReconcileWrite ==
    /\ recon.pc = "read"
    /\ db' = [db EXCEPT !.chapters_read = recon.sum]
    /\ recon' = IdleRecon
    /\ UNCHANGED <<catalog, req, started, lastDone, ovars, xvars>>


(***************************************************************************)
(* Part IV: adding to and removing from the library                        *)
(*   POST /api/library, DELETE /api/library/[id] and the server actions    *)
(*   addToLibrary, removeFromLibrary (lib/actions/library-actions.ts)      *)
(***************************************************************************)
LibRequests == 1..MaxLibRequests

NoLreq ==
    [pc |-> "new", op |-> "none", user |-> Owner, entry |-> Owner,
     found |-> FALSE, was |-> 0, status |-> "none"]

NoLibraryRequests == [k \in LibRequests |-> NoLreq]

\* total_follows = total_follows - 1
PlainDecrement(n) == n - 1

\* SET total_follows = GREATEST(0, total_follows - 1)
DecrementFollows(n) == IF n - 1 > 0 THEN n - 1 ELSE 0

Arrive(k, op, u, e) ==
    [NoLreq EXCEPT !.op = op, !.user = u, !.entry = e]

\* POST /api/library up to its first statement: existingEntry = tx.libraryEntry.findUnique
PostFind(k, u) ==
    /\ lreq[k].pc = "new"
    /\ LET res == allOperations(entries, "LibraryEntry", "findUnique",
                                Args(OwnedBy(u, u), "keep"))
       IN  lreq' = [lreq EXCEPT ![k] =
                    [Arrive(k, "POST", u, u) EXCEPT !.pc = "upsert", !.found = res.rows # {}]]
    /\ UNCHANGED <<entries, total_follows, call, ovars, pvars, zvars>>

\* the follow count raised on every request
AlwaysIncrement(found) == 1

\* if (!existingEntry) total_follows: { increment: 1 }
FollowIncrement(found) == IF found THEN 0 ELSE 1

\* tx.libraryEntry.upsert, the increment for a new entry, COMMIT, 201
PostUpsert(k) ==
    /\ lreq[k].pc = "upsert"
    /\ entries' = allOperations(entries, "LibraryEntry", "upsert",
                                Args(OwnedBy(lreq[k].user, lreq[k].user), "keep")).table
    /\ total_follows' = total_follows + FollowIncrement(lreq[k].found)
    /\ lreq' = [lreq EXCEPT ![k].pc = "done", ![k].was = total_follows, ![k].status = "201"]
    /\ UNCHANGED <<call, ovars, pvars, zvars>>

\* addToLibrary: supabase insert into library_entries; 23505 when the user already
\* has a row for the series; the follow count is not touched
addToLibrary(k, u) ==
    /\ lreq[k].pc = "new"
    /\ IF entries[u].exists
       THEN /\ lreq' = [lreq EXCEPT ![k] =
                        [Arrive(k, "addToLibrary", u, u) EXCEPT !.pc = "done", !.status = "error"]]
            /\ UNCHANGED entries
       ELSE /\ lreq' = [lreq EXCEPT ![k] =
                        [Arrive(k, "addToLibrary", u, u) EXCEPT !.pc = "done", !.status = "data"]]
            /\ entries' = [entries EXCEPT ![u] = LiveEntry]
    /\ UNCHANGED <<total_follows, call, ovars, pvars, zvars>>

RemoveOps == {"DELETE", "removeFromLibrary"}

\* ApiError 404 through handleApiError; the server action returns { error }
NotFoundAnswer(op) == IF op = "DELETE" THEN "404" ELSE "error"

FailureAnswer(op) == IF op = "DELETE" THEN "500" ELSE "error"

\* DELETE: where: { id, user_id }; removeFromLibrary: where: { id }
DeleteWhere(op, u, e) == IF op = "DELETE" THEN OwnedBy(u, e) ELSE Where({e}, "any")

\* DELETE /api/library/[id] and removeFromLibrary up to the answer of
\* tx.libraryEntry.findUnique({ where: { id, user_id } }); no entry: 404
RemoveFind(k, op, u, e) ==
    /\ lreq[k].pc = "new"
    /\ op \in RemoveOps
    /\ LET res == allOperations(entries, "LibraryEntry", "findUnique",
                                Args(OwnedBy(u, e), "keep"))
       IN  lreq' = [lreq EXCEPT ![k] =
                    IF res.rows = {}
                    THEN [Arrive(k, op, u, e) EXCEPT !.pc = "done", !.status = NotFoundAnswer(op)]
                    ELSE [Arrive(k, op, u, e) EXCEPT !.pc = "delete", !.found = TRUE]]
    /\ UNCHANGED <<entries, total_follows, call, ovars, pvars, zvars>>

\* tx.libraryEntry.delete: the extension answers it with an update on the base client
RemoveSoftDelete(k) ==
    /\ lreq[k].pc = "delete"
    /\ entries' = allOperations(entries, "LibraryEntry", "delete",
                                Args(DeleteWhere(lreq[k].op, lreq[k].user, lreq[k].entry),
                                     "keep")).table
    /\ lreq' = [lreq EXCEPT ![k].pc = "decrement"]
    /\ UNCHANGED <<total_follows, call, ovars, pvars, zvars>>

\* the clamped decrement of series.total_follows, COMMIT, success
RemoveDecrement(k) ==
    /\ lreq[k].pc = "decrement"
    /\ total_follows' = DecrementFollows(total_follows)
    /\ lreq' = [lreq EXCEPT ![k].pc = "done", ![k].was = total_follows, ![k].status = "success"]
    /\ UNCHANGED <<entries, call, ovars, pvars, zvars>>

\* a statement of the removal throws: the transaction is rolled back, 500; the
\* update on the base client was not part of it
RemoveFail(k) ==
    /\ lreq[k].pc \in {"delete", "decrement"}
    /\ lreq' = [lreq EXCEPT ![k].pc = "done", ![k].status = FailureAnswer(lreq[k].op)]
    /\ UNCHANGED <<entries, total_follows, call, ovars, pvars, zvars>>


(***************************************************************************)
(* Part V : worker jobs and the dead-letter queue                          *)
(*   wrapWithDLQ, logWorkerFailure (src/unnamed/part_000) around a         *)
(*   processor such as processResolution (series-actions.tsx)              *)
(***************************************************************************)
Jobs == 1..MaxJobs

\* job.opts.attempts as the queue was configured; 0 stands for "not set"
AttemptOptions == 0..MaxAttempts

\* what the processor does on one attempt: it returns, it throws an error
\* that may be retried, or it throws UnrecoverableError
Outcomes == {"ok", "Error", "UnrecoverableError"}

QueueName == "resolution"

NoJob == [state |-> "none", attempts |-> 0, attemptsMade |-> 0, data |-> "none"]

NoJobs == [j \in Jobs |-> NoJob]

\* const maxAttempts = job.opts?.attempts || 1
maxAttempts(job) == IF job.attempts # 0 THEN job.attempts ELSE 1

isLastAttempt(job) == job.attemptsMade + 1 >= maxAttempts(job)

\* prisma.workerFailure.create inside try/catch: when the insert fails the
\* error is logged to the console and nothing is written
logWorkerFailure(table, queueName, id, job, error, created) ==
    IF created
    THEN Append(table, [queue_name    |-> queueName,
                        job_id        |-> id,
                        payload       |-> job.data,
                        error_message |-> error,
                        attempts_made |-> job.attemptsMade])
    ELSE table

\* the catch block of the wrapper: the table after it
wrapWithDLQ(table, queueName, id, job, error, created) ==
    IF isLastAttempt(job)
    THEN logWorkerFailure(table, queueName, id,
                          [job EXCEPT !.attemptsMade = job.attemptsMade + 1],
                          error, created)
    ELSE table

\* BullMQ after the wrapped processor threw: the failure is counted; the job
\* goes back to the queue while attempts are left, unless the error is an
\* UnrecoverableError
moveToFailed(job, error) ==
    LET made == job.attemptsMade + 1
    IN  [job EXCEPT !.attemptsMade = made,
                    !.state = IF error = "UnrecoverableError" \/ made >= job.attempts
                              THEN "failed"
                              ELSE "waiting"]

\* queue.add(name, data, { attempts })
AddJob(j, attempts) ==
    /\ jobs[j].state = "none"
    /\ jobs' = [jobs EXCEPT ![j] = [state |-> "waiting", attempts |-> attempts,
                                    attemptsMade |-> 0, data |-> "payload"]]
    /\ UNCHANGED <<workerFailure, ovars, pvars, lvars, yvars, rvars, svars>>

\* one attempt on which the processor returns
ProcessOk(j) ==
    /\ jobs[j].state = "waiting"
    /\ jobs' = [jobs EXCEPT ![j].state = "completed"]
    /\ UNCHANGED <<workerFailure, ovars, pvars, lvars, yvars, rvars, svars>>

\* one attempt on which the processor throws
ProcessThrow(j, error, created) ==
    /\ jobs[j].state = "waiting"
    /\ error # "ok"
    /\ workerFailure' = wrapWithDLQ(workerFailure, QueueName, j, jobs[j], error, created)
    /\ jobs' = [jobs EXCEPT ![j] = moveToFailed(jobs[j], error)]
    /\ UNCHANGED <<ovars, pvars, lvars, yvars, rvars, svars>>


(***************************************************************************)
(* Part VI : withRetry and isTransientError (src/unnamed/part_001)         *)
(*   An error is a record of its name, its code and its lower-cased        *)
(*   message; the message is the set of the phrases it contains, so that   *)
(*   errorMessage.includes(p) is p \in message.                            *)
(***************************************************************************)
nonTransientPatterns ==
    {"password authentication failed", "authentication failed", "invalid password",
     "access denied", "permission denied", "role .* does not exist",
     "database .* does not exist", "invalid credentials"}

nonTransientCodes == {"P1000", "P1003"}

transientPatterns ==
    {"circuit breaker", "can't reach database", "connection refused", "connection reset",
     "connection timed out", "econnrefused", "econnreset", "etimedout",
     "unable to establish connection", "connection pool timeout", "too many connections",
     "tenant or user not found", "pool_timeout",
     "server closed the connection unexpectedly", "prepared statement",
     "ssl connection has been closed unexpectedly"}

transientCodes ==
    {"P1001", "P1002", "P1008", "P1017", "P2024", "P2028", "40001", "40P01", "57P01"}

isInitError(error) ==
    \/ error.name = "PrismaClientInitializationError"
    \/ error.name = "PrismaClientKnownRequestError"
    \/ /\ "prisma" \in error.message
       /\ ("initialization" \in error.message \/ "invocation" \in error.message)

isTransientError(error) ==
    IF error.message \cap nonTransientPatterns # {} THEN FALSE
    ELSE IF error.code \in nonTransientCodes THEN FALSE
    ELSE \/ isInitError(error)
         \/ error.message \cap transientPatterns # {}
         \/ error.code \in transientCodes

Err(name, code, message) == [name |-> name, code |-> code, message |-> message]

\* the errors an operation on the database throws.  Prisma reports a failed
\* query as PrismaClientKnownRequestError with a code (P2025 "record not
\* found", P2002 "unique constraint failed", P2024 pool timeout), rejected
\* arguments as PrismaClientValidationError, a failed connection as
\* PrismaClientInitializationError; the message of each starts with
\* "Invalid `prisma.model.op()` invocation".  validateUUID throws ApiError.
Invocation == {"prisma", "invocation"}

Errors ==
    {Err("PrismaClientKnownRequestError", code, Invocation) :
         code \in {"P2025", "P2002", "P2024", "P2028"}}
    \cup {Err("PrismaClientValidationError", "", message) : message \in {{}, Invocation}}
    \cup {Err("PrismaClientInitializationError", "P1001", {"can't reach database"}),
          Err("PrismaClientInitializationError", "P1000", {"authentication failed"}),
          Err("PrismaClientInitializationError", "P1003", {"database .* does not exist"})}
    \cup {Err("ApiError", "INVALID_FORMAT", {})}
    \cup {Err("Error", "", message) :
              message \in {{}, {"connection refused"}, {"etimedout"}, {"permission denied"},
                           {"circuit breaker"}}}

NoError == Err("none", "", {})

NoRetry == [state |-> "idle", attempt |-> 0, calls |-> 0, lastError |-> NoError, errors |-> <<>>]

\* withRetry(operation): the loop is entered
CallWithRetry ==
    /\ retry.state = "idle"
    /\ retry' = [retry EXCEPT !.state = "running"]
    /\ UNCHANGED <<ovars, pvars, lvars, yvars, wvars, svars>>

\* return await operation()
OperationReturns ==
    /\ retry.state = "running"
    /\ retry.attempt < maxRetries
    /\ retry' = [retry EXCEPT !.state = "returned", !.calls = @ + 1]
    /\ UNCHANGED <<ovars, pvars, lvars, yvars, wvars, svars>>

\* operation() throws: the catch block rethrows, or waits and loops
OperationThrows(error) ==
    /\ retry.state = "running"
    /\ retry.attempt < maxRetries
    /\ retry' = [retry EXCEPT
           !.calls = @ + 1,
           !.lastError = error,
           !.errors = Append(@, error),
           !.state = IF ~isTransientError(error) \/ retry.attempt = maxRetries - 1
                     THEN "thrown"
                     ELSE "running",
           !.attempt = IF ~isTransientError(error) \/ retry.attempt = maxRetries - 1
                       THEN @
                       ELSE @ + 1]
    /\ UNCHANGED <<ovars, pvars, lvars, yvars, wvars, svars>>


(***************************************************************************)
(* Part VII : the crawl scheduler (runMasterScheduler)                     *)
(*   Its source is not part of the tree; the run follows the algorithm of  *)
(*   spec.md section 4.3, steps 1 to 3 and the failure policy.             *)
(***************************************************************************)
Sources == {"s1", "s2"}

Tiers == {"A", "B", "C"}

Times == 0..MaxTime

\* the configured ceiling of the crawl queue's waiting count
Ceiling == 2

\* a source that failed this often is no longer scheduled
FailureCeiling == 1

\* the interval by which a scheduled source's next check moves: shorter for
\* tier A, longer for tier B
Interval(tier) == IF tier = "A" THEN 1 ELSE 2

NoSources == [s \in Sources |-> [tier |-> "C", next_check_at |-> 0, failure_count |-> 0]]

\* the clock, and what the last run did: whether it skipped the cycle, its
\* calls of addBulk, the batch it passed; runs counts the runs modulo 2
NoRun == [now |-> 0, runs |-> 0, skipped |-> FALSE, calls |-> 0, batch |-> {}]

\* step 1: the waiting count exceeds the ceiling
NeverSkips(backlog) == FALSE

BacklogTooHigh(backlog) == backlog > Ceiling

AnyTier(tier) == TRUE

\* step 2: tier A or B, tier C excluded unconditionally
ActiveTier(tier) == tier \in {"A", "B"}

\* step 2 and the failure policy: the rows the run selects
Selected(rows, now) ==
    {s \in Sources : /\ rows[s].next_check_at <= now
                     /\ ActiveTier(rows[s].tier)
                     /\ rows[s].failure_count < FailureCeiling}

\* step 3, on enqueue success: the selected sources' next check moves on
AdvanceNextCheck(rows, batch, now) ==
    [s \in Sources |->
        IF s \in batch
        THEN [rows[s] EXCEPT !.next_check_at = now + Interval(rows[s].tier)]
        ELSE rows[s]]

\* one run in which the batch, if any, is enqueued
runMasterScheduler ==
    LET batch == IF BacklogTooHigh(waiting) THEN {} ELSE Selected(sources, sched.now)
    IN  /\ sched' = [sched EXCEPT !.runs = (@ + 1) % 2,
                                  !.skipped = BacklogTooHigh(waiting),
                                  !.calls = IF batch = {} THEN 0 ELSE 1,
                                  !.batch = batch]
        /\ waiting' = waiting + Cardinality(batch)
        /\ sources' = AdvanceNextCheck(sources, batch, sched.now)
        /\ UNCHANGED <<ovars, pvars, lvars, yvars, wvars, rvars>>

\* one run in which the enqueue call fails: nothing is queued, no source moves
EnqueueFails ==
    /\ ~BacklogTooHigh(waiting)
    /\ Selected(sources, sched.now) # {}
    /\ sched' = [sched EXCEPT !.runs = (@ + 1) % 2,
                              !.skipped = FALSE,
                              !.calls = 1,
                              !.batch = Selected(sources, sched.now)]
    /\ UNCHANGED <<sources, waiting, ovars, pvars, lvars, yvars, wvars, rvars>>

\* the interval timer: time passes between runs
Tick ==
    /\ sched.now < MaxTime
    /\ sched' = [sched EXCEPT !.now = @ + 1]
    /\ UNCHANGED <<sources, waiting, ovars, pvars, lvars, yvars, wvars, rvars>>

\* a crawl worker takes a job off the queue; the crawl succeeds or fails
Crawl(s, ok) ==
    /\ waiting > 0
    /\ waiting' = waiting - 1
    /\ sources' = [sources EXCEPT ![s].failure_count =
                       IF ok \/ @ >= FailureCeiling THEN @ ELSE @ + 1]
    /\ UNCHANGED <<sched, ovars, pvars, lvars, yvars, wvars, rvars>>

\* another producer (an explicit user action) puts a crawl job on the queue
OtherEnqueue ==
    /\ waiting <= Ceiling
    /\ waiting' = waiting + 1
    /\ UNCHANGED <<sources, sched, ovars, pvars, lvars, yvars, wvars, rvars>>


(***************************************************************************)
(* Part VIII : isIpInRange (src/unnamed/part_000)                          *)
(*   A 32-bit word is the set of the positions of its one bits (0 the      *)
(*   lowest), so that & is intersection and ~ the complement; an address   *)
(*   is the tuple of its four parts.                                       *)
(***************************************************************************)
BitPositions == 0..31

PrefixLengths == 0..32

Pow2(n) == IF n = 0 THEN 1 ELSE IF n = 1 THEN 2 ELSE IF n = 2 THEN 4 ELSE IF n = 3 THEN 8
           ELSE IF n = 4 THEN 16 ELSE IF n = 5 THEN 32 ELSE IF n = 6 THEN 64 ELSE 128

\* part << shift, for a part of 0..255
ShiftLeft(part, shift) == {shift + i : i \in {i \in 0..7 : (part \div Pow2(i)) % 2 = 1}}

\* (parts[0] << 24) | (parts[1] << 16) | (parts[2] << 8) | parts[3]
ToInt(parts) ==
    ShiftLeft(parts[1], 24) \cup ShiftLeft(parts[2], 16)
        \cup ShiftLeft(parts[3], 8) \cup ShiftLeft(parts[4], 0)

\* ~((1 << (32 - bits)) - 1): the shift count of << is taken modulo 32, so
\* that 1 << 32 is 1; (1 << n) - 1 has the n lowest bits set
Mask(bits) ==
    LET n == (32 - bits) % 32
    IN  BitPositions \ {b \in BitPositions : b < n}

\* isIpInRange(ip, cidr) for a cidr "range/bits" of four numeric parts and a
\* numeric prefix length
isIpInRange(ip, range, bits) ==
    (ToInt(ip) \cap Mask(bits)) = (ToInt(range) \cap Mask(bits))

Addresses ==
    {<<0, 0, 0, 0>>, <<255, 255, 255, 255>>, <<127, 0, 0, 1>>, <<127, 0, 0, 2>>,
     <<192, 168, 1, 0>>, <<192, 168, 1, 1>>, <<192, 168, 2, 1>>, <<128, 0, 0, 0>>}

NoIpQuery == [ip |-> <<0, 0, 0, 0>>, range |-> <<0, 0, 0, 0>>, bits |-> 0,
              asked |-> FALSE, answer |-> FALSE]

\* isAllowed = allowedCidrs.some(cidr => isIpInRange(clientIp, cidr))
CheckIp ==
    /\ ~ipq.asked
    /\ ipq' = [ipq EXCEPT !.asked = TRUE,
                          !.answer = isIpInRange(ipq.ip, ipq.range, ipq.bits)]
    /\ UNCHANGED <<qvars, nvars, gvars, tvars, avars, fvars, uvars, kvars, mvars>>


(***************************************************************************)
(* Part IX : the chapter ingestion engine (processChapterIngest)           *)
(*   Its source is not part of the tree; a call follows the algorithm of   *)
(*   spec.md section 4.4: steps 1 to 3 in one transaction. The upsert of   *)
(*   step 1 holds the key (series_id, chapter_number) until the            *)
(*   transaction ends, so a second transaction's upsert of the same key    *)
(*   waits for it. One series; a source's chapter id is the pair of the    *)
(*   source and the chapter number it stands for.                          *)
(***************************************************************************)
Ingests == 1..MaxIngests

Bindings == Sources \X Chapters

NoRows == [c \in Chapters |-> 0]

NoBindings == [b \in Bindings |-> 0]

Report(source, chapter) == [seriesSourceId |-> source, chapterNumber |-> chapter]

NoIngest ==
    [pc |-> "new", report |-> Report("s1", 1),
     newLogical |-> FALSE, newSource |-> FALSE, newFeed |-> FALSE]

NoIngests == [i \in Ingests |-> NoIngest]

\* the transaction of call i holds the key of chapter c
HoldsKey(i, c) == ing[i].pc \in {"logical", "bound"} /\ ing[i].report.chapterNumber = c

\* a read-then-write sequence: nothing is held, nobody waits
NeverHeld(i, c) == TRUE

\* no other transaction holds the key of chapter c
KeyFree(i, c) == \A j \in Ingests \ {i} : ~HoldsKey(j, c)

\* every new binding is announced
AnyNewSource(chapter, newSource) == newSource

\* step 3: this is the first ChapterSource ever attached to the LogicalChapter
FirstSource(chapter, newSource) ==
    /\ newSource
    /\ \A s \in Sources : chapterSources[<<s, chapter>>] = 0

\* step 1: resolve or create the LogicalChapter by an upsert on its key
IngestLogical(i, source, chapter) ==
    /\ ing[i].pc = "new"
    /\ KeyFree(i, chapter)
    /\ ing' = [ing EXCEPT ![i] =
                [NoIngest EXCEPT !.pc = "logical", !.report = Report(source, chapter),
                                 !.newLogical = logicalChapters[chapter] = 0]]
    /\ UNCHANGED <<logicalChapters, chapterSources, feedEntries, qvars, ivars, gvars, tvars, avars, fvars, uvars, kvars, mvars>>

\* step 2: resolve or create the ChapterSource by its key; step 3: the FeedEntry
IngestBind(i) ==
    /\ ing[i].pc = "logical"
    /\ LET r == ing[i].report
           new == chapterSources[<<r.seriesSourceId, r.chapterNumber>>] = 0
       IN  ing' = [ing EXCEPT ![i].pc = "bound",
                              ![i].newSource = new,
                              ![i].newFeed = FirstSource(r.chapterNumber, new)]
    /\ UNCHANGED <<logicalChapters, chapterSources, feedEntries, qvars, ivars, gvars, tvars, avars, fvars, uvars, kvars, mvars>>

\* COMMIT: the staged rows become visible
IngestCommit(i) ==
    /\ ing[i].pc = "bound"
    /\ LET r == ing[i].report
           b == <<r.seriesSourceId, r.chapterNumber>>
       IN  /\ logicalChapters' =
                [logicalChapters EXCEPT ![r.chapterNumber] = @ + (IF ing[i].newLogical THEN 1 ELSE 0)]
           /\ chapterSources' =
                [chapterSources EXCEPT ![b] = @ + (IF ing[i].newSource THEN 1 ELSE 0)]
           /\ feedEntries' =
                [feedEntries EXCEPT ![r.chapterNumber] = @ + (IF ing[i].newFeed THEN 1 ELSE 0)]
    /\ ing' = [ing EXCEPT ![i].pc = "done"]
    /\ UNCHANGED <<qvars, ivars, gvars, tvars, avars, fvars, uvars, kvars, mvars>>

\* a step fails: the transaction rolls back, nothing it staged is kept
IngestFail(i) ==
    /\ ing[i].pc \in {"logical", "bound"}
    /\ ing' = [ing EXCEPT ![i].pc = "failed"]
    /\ UNCHANGED <<logicalChapters, chapterSources, feedEntries, qvars, ivars, gvars, tvars, avars, fvars, uvars, kvars, mvars>>


(***************************************************************************)
(* Part X : the gap recovery detector (processGapRecovery)                 *)
(*   Its source is not part of the tree; a run follows spec.md section     *)
(*   4.5. chapter_number is a decimal: the model counts in tenths, 105     *)
(*   stands for 10.5, -10 for the sentinel -1.                             *)
(***************************************************************************)
SENTINEL == 0 - 10

Whole(k) == 10 * k

\* the chapter numbers a series may have: whole ones, halves, the sentinel
ChapterNumbers ==
    {SENTINEL} \cup {Whole(k) : k \in 1..MaxNumber} \cup {Whole(k) + 5 : k \in 1..MaxNumber}

IsInteger(n) == n % 10 = 0

RECURSIVE SortAscending(_)
SortAscending(S) ==
    IF S = {} THEN <<>>
    ELSE LET least == CHOOSE n \in S : \A m \in S : n <= m
         IN  <<least>> \o SortAscending(S \ {least})

\* the neighbour counted as missing too
UpToNext(a, b) == {n \in (a + 1)..b : IsInteger(n)}

\* the integers strictly between two neighbouring integer chapter numbers
Between(a, b) == {n \in (a + 1)..(b - 1) : IsInteger(n)}

\* walk the sorted integer chapter numbers and collect what is missing
\* between each one and the next
RECURSIVE MissingIn(_)
MissingIn(sorted) ==
    IF Len(sorted) < 2 THEN {}
    ELSE Between(sorted[1], sorted[2]) \cup MissingIn(Tail(sorted))

\* fetch all LogicalChapter numbers excluding the sentinel, sort ascending,
\* report every missing integer
detectGaps(numbers) ==
    MissingIn(SortAscending({n \in numbers : n # SENTINEL /\ IsInteger(n)}))

\* the series' healthy sources
HealthySources == {s \in Sources : sources[s].failure_count < FailureCeiling}

NoGapRun == [chapters |-> {}, ran |-> FALSE, gaps |-> {},
             result |-> [status |-> "none", gapCount |-> 0, sourceCount |-> 0]]

\* one run for the series: a re-crawl per healthy source when there are gaps
processGapRecovery ==
    /\ ~gap.ran
    /\ LET gaps == detectGaps(gap.chapters)
       IN  /\ gap' = [gap EXCEPT
                  !.ran = TRUE,
                  !.gaps = gaps,
                  !.result = IF gaps # {}
                             THEN [status |-> "triggered", gapCount |-> Cardinality(gaps),
                                   sourceCount |-> Cardinality(HealthySources)]
                             ELSE [status |-> "no_gaps", gapCount |-> 0, sourceCount |-> 0]]
           /\ waiting' = waiting + (IF gaps # {} THEN Cardinality(HealthySources) ELSE 0)
    /\ UNCHANGED <<sources, sched, ovars, pvars, lvars, wvars, rvars, ivars, nvars, tvars, avars, fvars, uvars, kvars, mvars>>


(***************************************************************************)
(* Part XI : the per-source rate limiter (sourceRateLimiter.acquireToken)  *)
(*   Its source is not part of the tree; the bucket follows spec.md        *)
(*   section 4.1 with the figures of the fairness property (burst 10,      *)
(*   5 requests a second). Time is counted in ticks of 100 ms and the      *)
(*   float token count in tenths of a token, so that elapsed * rate is     *)
(*   exact.                                                                *)
(***************************************************************************)
Workers == {"w1", "w2"}

TicksPerSecond == 10

\* one token, in tenths
TOKEN == TicksPerSecond

\* burst capacity, in tokens
CAPACITY == 10

\* refill rate, in requests per second
RATE == 5

FullBucket == [tokens |-> CAPACITY * TOKEN, lastRefillAt |-> 0]

NotAcquiring == [status |-> "idle", asked |-> 0]

\* a refill that is not capped
Uncapped(tokens) == tokens

\* ... capped at capacity
Capped(tokens) == IF tokens > CAPACITY * TOKEN THEN CAPACITY * TOKEN ELSE tokens

\* refill is computed lazily as elapsed * rate
Refilled(b, now) == Capped(b.tokens + (now - b.lastRefillAt) * RATE)

\* any fraction of a token counts as one
HasFraction(tokens) == tokens > 0

\* a token is available
HasToken(tokens) == tokens >= TOKEN

\* one atomic read-modify-write of the store: refill, then debit a token if
\* there is one; without one the caller is suspended
TryAcquire(w, asked) ==
    LET tokens == Refilled(bucket, clock)
    IN  IF HasToken(tokens)
        THEN /\ bucket' = [tokens |-> tokens - TOKEN, lastRefillAt |-> clock]
             /\ grants' = Append(grants, [asked |-> asked, at |-> clock])
             /\ acq' = [acq EXCEPT ![w] = NotAcquiring]
        ELSE /\ bucket' = [tokens |-> tokens, lastRefillAt |-> clock]
             /\ acq' = [acq EXCEPT ![w] = [status |-> "waiting", asked |-> asked]]
             /\ UNCHANGED grants

\* a crawl worker calls acquireToken(source)
AcquireToken(w) ==
    /\ acq[w].status = "idle"
    /\ calls < MaxCalls
    /\ calls' = calls + 1
    /\ TryAcquire(w, clock)
    /\ UNCHANGED <<clock, qvars, ivars, nvars, gvars, avars, fvars, uvars, kvars, mvars>>

\* a suspended caller wakes up and tries again
WakeUp(w) ==
    /\ acq[w].status = "waiting"
    /\ clock > bucket.lastRefillAt  \* the bucket can only have gained tokens since
    /\ TryAcquire(w, acq[w].asked)
    /\ UNCHANGED <<clock, calls, qvars, ivars, nvars, gvars, avars, fvars, uvars, kvars, mvars>>

\* 100 ms pass
TickClock ==
    /\ clock < MaxClock
    /\ clock' = clock + 1
    /\ UNCHANGED <<bucket, acq, grants, calls, qvars, ivars, nvars, gvars, avars, fvars, uvars, kvars, mvars>>


(***************************************************************************)
(* Part XII : the updateProgress server action                             *)
(*   (src/src/lib/actions/library-actions.ts), applied to a copy of the    *)
(*   entry and the profile, write by write beside PATCH progress           *)
(***************************************************************************)
\* supabase.rpc('increment_xp', { user_id, amount: 10 })
INCREMENT_XP_AMOUNT == 10

NoActionWrites == [applied |-> 0, last_read_chapter |-> 0, xp |-> 0, awarded |-> {}]

\* .update({ last_read_chapter: chapterResult.data, ... })
WrittenChapter(current, chapter) == chapter

\* updateProgress(entryId, chapter, seriesId) for the write that PATCH request r
\* carried: the update of the entry, then increment_xp
updateProgress(r) ==
    /\ r = act.applied + 1
    /\ r \in Requests
    /\ req[r].pc = "committed"
    /\ act' = [applied |-> r,
               last_read_chapter |->
                   WrittenChapter(act.last_read_chapter, req[r].payload.chapterNumber),
               xp |-> act.xp + INCREMENT_XP_AMOUNT,
               awarded |-> act.awarded \cup {r}]
    /\ UNCHANGED <<qvars, ivars, nvars, gvars, tvars, fvars, uvars, kvars, mvars>>


(***************************************************************************)
(* Part XIII : the activity feed cache                                     *)
(*   GET /api/feed/activity (src/unnamed/part_002) caches its response     *)
(*   under the version held in redis; PATCH progress increments the        *)
(*   version inside its transaction (progress route, step 9). A response   *)
(*   is represented by the database state it was computed from: the        *)
(*   number of committed progress updates.                                 *)
(***************************************************************************)
Gets == 1..MaxGets

Versions == 1..(MaxUpdates + 1)

NotCached == 0 - 1

NoGet == [pc |-> "new", version |-> 0, floor |-> 0, snapshot |-> 0,
          served |-> 0, fromCache |-> FALSE]

\* PATCH: the transaction's writes are made; they are not visible to others yet
PatchWrites ==
    /\ patch = "idle"
    /\ feedDb < MaxUpdates
    /\ fver <= MaxUpdates  \* the model's cap on the version counter
    /\ patch' = "written"
    /\ UNCHANGED <<feedDb, fver, fcache, gets, qvars, ivars, nvars, gvars, tvars, avars, uvars, kvars, mvars>>

\* await redisApi.incr(`${REDIS_KEY_PREFIX}feed:v:${user.id}`), inside the
\* transaction callback: redis is changed at once
PatchInvalidate ==
    /\ patch = "written"
    /\ fver' = fver + 1
    /\ patch' = "invalidated"
    /\ UNCHANGED <<feedDb, fcache, gets, qvars, ivars, nvars, gvars, tvars, avars, uvars, kvars, mvars>>

\* the callback returns: COMMIT, then the response
PatchCommit ==
    /\ patch = "invalidated"
    /\ feedDb' = feedDb + 1
    /\ patch' = "idle"
    /\ UNCHANGED <<fver, fcache, gets, qvars, ivars, nvars, gvars, tvars, avars, uvars, kvars, mvars>>

\* the callback throws (recordActivityEvent after the increment): ROLLBACK
PatchRollback ==
    /\ patch = "invalidated"
    /\ patch' = "idle"
    /\ UNCHANGED <<feedDb, fver, fcache, gets, qvars, ivars, nvars, gvars, tvars, avars, uvars, kvars, mvars>>

\* let version = await redisApi.get(versionKey)
GetVersion(g) ==
    /\ gets[g].pc = "new"
    /\ \A h \in Gets : h < g => gets[h].pc # "new"
    /\ gets' = [gets EXCEPT ![g] =
                  [NoGet EXCEPT !.floor = feedDb,
                                !.version = IF fver = 0 THEN 1 ELSE fver,
                                !.pc = IF fver = 0 THEN "setVersion" ELSE "lookup"]]
    /\ UNCHANGED <<feedDb, fver, fcache, patch, qvars, ivars, nvars, gvars, tvars, avars, uvars, kvars, mvars>>

\* if (!version) { version = "1"; await redisApi.set(versionKey, version) }
GetSetVersion(g) ==
    /\ gets[g].pc = "setVersion"
    /\ fver' = 1
    /\ gets' = [gets EXCEPT ![g].pc = "lookup"]
    /\ UNCHANGED <<feedDb, fcache, patch, qvars, ivars, nvars, gvars, tvars, avars, uvars, kvars, mvars>>

\* const cached = await redisApi.get(cacheKey); if (cached) return it
GetLookup(g) ==
    /\ gets[g].pc = "lookup"
    /\ LET cached == fcache[gets[g].version]
       IN  gets' = [gets EXCEPT ![g] =
                      IF cached # NotCached
                      THEN [@ EXCEPT !.pc = "done", !.served = cached, !.fromCache = TRUE]
                      ELSE [@ EXCEPT !.pc = "query"]]
    /\ UNCHANGED <<feedDb, fver, fcache, patch, qvars, ivars, nvars, gvars, tvars, avars, uvars, kvars, mvars>>

\* the queries of a cache miss: they see what is committed
GetQuery(g) ==
    /\ gets[g].pc = "query"
    /\ gets' = [gets EXCEPT ![g].pc = "store", ![g].snapshot = feedDb]
    /\ UNCHANGED <<feedDb, fver, fcache, patch, qvars, ivars, nvars, gvars, tvars, avars, uvars, kvars, mvars>>

\* await redisApi.set(cacheKey, JSON.stringify(response), 'EX', 60); return response
GetStore(g) ==
    /\ gets[g].pc = "store"
    /\ fcache' = [fcache EXCEPT ![gets[g].version] = gets[g].snapshot]
    /\ gets' = [gets EXCEPT ![g].pc = "done", ![g].served = gets[g].snapshot]
    /\ UNCHANGED <<feedDb, fver, patch, qvars, ivars, nvars, gvars, tvars, avars, uvars, kvars, mvars>>

\* a cached response expires after its 60 seconds
Expire(v) ==
    /\ fcache[v] # NotCached
    /\ fcache' = [fcache EXCEPT ![v] = NotCached]
    /\ UNCHANGED <<feedDb, fver, patch, gets, qvars, ivars, nvars, gvars, tvars, avars, uvars, kvars, mvars>>


(***************************************************************************)
(* Part XIV : paging through GET /api/feed/updates                         *)
(*   (src/src/app/api/feed/updates/route.ts). A feed item is represented   *)
(*   by its first_detected_at; the feed does not change while the client   *)
(*   pages. The text of USER_UPDATES_FEED (lib/sql/production-queries) is  *)
(*   not part of the tree: it is taken to rank newest first and to return  *)
(*   at most its second parameter of rows.                                 *)
(***************************************************************************)
DetectedAt == 1..MaxFeed

Limits == 1..MaxLimit

NoPaging == [feed |-> {}, limit |-> 1, cursor |-> 0, used |-> 0, items |-> <<>>,
             seen |-> {}, has_more |-> FALSE, fetched |-> 0]

First(s, n) == SubSeq(s, 1, IF n < Len(s) THEN n ELSE Len(s))

\* PRODUCTION_QUERIES.USER_UPDATES_FEED with the parameters user.id and limit + 1
USER_UPDATES_FEED(feed, n) == First(Reverse(SortAscending(feed)), n)

\* prisma.$queryRawUnsafe(PRODUCTION_QUERIES.USER_UPDATES_FEED, user.id, limit + 1):
\* cursorDate is computed and not passed on
rawUpdates(feed, cursorDate, limit) == USER_UPDATES_FEED(feed, limit + 1)

hasMore(rankedChapters, limit) == Len(rankedChapters) > limit

\* hasMore ? rankedChapters.slice(0, -1) : rankedChapters
pageItems(rankedChapters, limit) ==
    IF hasMore(rankedChapters, limit)
    THEN SubSeq(rankedChapters, 1, Len(rankedChapters) - 1)
    ELSE rankedChapters

\* items[items.length - 1].first_detected_at, or null (0)
nextCursor(rankedChapters, limit) ==
    LET items == pageItems(rankedChapters, limit)
    IN  IF hasMore(rankedChapters, limit) /\ Len(items) > 0 THEN items[Len(items)] ELSE 0

\* the client asks for the first page, or for the next one with the
\* next_cursor it was given
FetchPage ==
    /\ pg.fetched < MaxPages
    /\ pg.fetched > 0 => pg.has_more
    /\ LET ranked == rawUpdates(pg.feed, pg.cursor, pg.limit)
       IN  pg' = [pg EXCEPT
                    !.used = pg.cursor,
                    !.items = pageItems(ranked, pg.limit),
                    !.seen = @ \cup Range(pg.items),
                    !.has_more = hasMore(ranked, pg.limit),
                    !.cursor = nextCursor(ranked, pg.limit),
                    !.fetched = @ + 1]
    /\ UNCHANGED <<qvars, ivars, nvars, gvars, tvars, avars, fvars, kvars, mvars>>


(***************************************************************************)
(* Part XV : checkRateLimit (src/unnamed/part_000)                         *)
(*   The same requests on one key are put to the redis path and to the     *)
(*   in-memory fallback, each with its own store. Time is in ticks.        *)
(***************************************************************************)
NoKey == [count |-> 0, expiresAt |-> 0, present |-> FALSE]

NoRecord == [count |-> 0, resetTime |-> 0, present |-> FALSE]

NoLimiter ==
    [maxRequests |-> 1, windowMs |-> 1, now |-> 0, asked |-> 0,
     redis |-> NoKey, memory |-> NoRecord,
     redisGrants |-> FALSE, memoryGrants |-> FALSE]

\* a redis key is gone once the time is past its expiry
KeyAlive(key, now) == key.present /\ ~(now > key.expiresAt)

\* multi.incr(redisKey); multi.pexpire(redisKey, windowMs); multi.exec()
RedisIncrExpire(key, now, windowMs) ==
    [count |-> (IF KeyAlive(key, now) THEN key.count ELSE 0) + 1,
     expiresAt |-> now + windowMs,
     present |-> TRUE]

\* return count <= maxRequests
RedisDecision(key, maxRequests) == key.count <= maxRequests

\* if (!record || now > record.resetTime)
NewWindow(record, now) == ~record.present \/ now > record.resetTime

\* the in-memory fallback: the record after the request
MemoryUpdate(record, now, maxRequests, windowMs) ==
    IF NewWindow(record, now)
    THEN [count |-> 1, resetTime |-> now + windowMs, present |-> TRUE]
    ELSE IF record.count >= maxRequests THEN record
    ELSE [record EXCEPT !.count = @ + 1]

\* the in-memory fallback: its answer
MemoryDecision(record, now, maxRequests) ==
    NewWindow(record, now) \/ ~(record.count >= maxRequests)

\* one request on the key, answered by each path from its own store
checkRateLimit ==
    /\ rl.asked < MaxAsked
    /\ LET key == RedisIncrExpire(rl.redis, rl.now, rl.windowMs)
       IN  rl' = [rl EXCEPT
                    !.asked = @ + 1,
                    !.redis = key,
                    !.redisGrants = RedisDecision(key, rl.maxRequests),
                    !.memory = MemoryUpdate(rl.memory, rl.now, rl.maxRequests, rl.windowMs),
                    !.memoryGrants = MemoryDecision(rl.memory, rl.now, rl.maxRequests)]
    /\ UNCHANGED <<qvars, ivars, nvars, gvars, tvars, avars, fvars, uvars, mvars>>

\* time passes
Elapse ==
    /\ rl.now < MaxNow
    /\ rl' = [rl EXCEPT !.now = @ + 1]
    /\ UNCHANGED <<qvars, ivars, nvars, gvars, tvars, avars, fvars, uvars, mvars>>


(***************************************************************************)
(* Part XVI : processResolution merging a duplicate library entry          *)
(*   (src/src/components/series/series-actions.tsx). The job's entry is    *)
(*   the redundant one; the user's other entry of the matched series       *)
(*   survives. Progress updates of the user commit at any time.            *)
(***************************************************************************)
Progress == 0..MaxChapter

NoMerge ==
    [redundant |-> 0, duplicate |-> 0, enriched |-> FALSE, deleted |-> FALSE, pc |-> "new",
     libEntry |-> 0, oldProgress |-> 0, asOfMerge |-> 0]

Greatest(a, b) == IF a > b THEN a ELSE b

\* const libEntry = await prisma.libraryEntry.findUnique({ where: { id: libraryEntryId } });
\* if (!libEntry || libEntry.metadata_status === 'enriched') return
ResolutionRead ==
    /\ mg.pc = "new"
    /\ mg' = [mg EXCEPT !.pc = IF mg.enriched THEN "returned" ELSE "matching",
                        !.libEntry = mg.redundant]
    /\ UNCHANGED <<qvars, ivars, nvars, gvars, tvars, avars, fvars, uvars, kvars>>

\* a progress update of the user to one of the two entries commits
\* (last_read_chapter only rises)
ProgressCommits(entry, c) ==
    /\ mg.pc # "merged"
    /\ IF entry = "redundant"
       THEN /\ isNewChapter(c, mg.redundant)
            /\ mg' = [mg EXCEPT !.redundant = c]
       ELSE /\ isNewChapter(c, mg.duplicate)
            /\ mg' = [mg EXCEPT !.duplicate = c]
    /\ UNCHANGED <<qvars, ivars, nvars, gvars, tvars, avars, fvars, uvars, kvars>>

\* the merge transaction up to its writes: currentEntry is found and not
\* enriched, existingDuplicate is found
MergeRead ==
    /\ mg.pc = "matching"
    /\ mg' = [mg EXCEPT !.pc = "merging", !.oldProgress = mg.duplicate]
    /\ UNCHANGED <<qvars, ivars, nvars, gvars, tvars, avars, fvars, uvars, kvars>>

\* const newProgress = Number(libEntry.last_read_chapter || 0)
newProgress(m) == m.libEntry

\* if (newProgress > oldProgress) update the duplicate; delete the redundant entry
MergeWrite ==
    /\ mg.pc = "merging"
    /\ mg' = [mg EXCEPT
                !.pc = "merged",
                !.asOfMerge = Greatest(mg.redundant, mg.duplicate),
                !.duplicate = IF newProgress(mg) > mg.oldProgress THEN newProgress(mg) ELSE @,
                !.deleted = TRUE]
    /\ UNCHANGED <<qvars, ivars, nvars, gvars, tvars, avars, fvars, uvars, kvars>>


(***************************************************************************)
(* Specifications                                                          *)
(***************************************************************************)
\* the library as the outbox and progress specifications see it: the owner
\* follows the series
OwnerFollows == [u \in Users |-> IF u = Owner THEN LiveEntry ELSE NoEntry]

\* the outbox and its drain passes, no progress request
Init ==
    /\ outbox = <<>>
    /\ nextId = 0
    /\ pass = [p \in PassIds |-> IdlePass]
    /\ event = NoEvent
    /\ catalog = [logical |-> {}, legacy |-> {}]
    /\ db = EmptyDb
    /\ req = [r \in Requests |-> NoReq]
    /\ started = 0
    /\ lastDone = NoPayload
    /\ recon = IdleRecon
    /\ entries = OwnerFollows
    /\ total_follows = 1
    /\ lreq = NoLibraryRequests
    /\ call = NoCall
    /\ jobs = NoJobs
    /\ workerFailure = <<>>
    /\ retry = NoRetry
    /\ sources = NoSources
    /\ waiting = 0
    /\ sched = NoRun
    /\ ipq = NoIpQuery
    /\ logicalChapters = NoRows
    /\ chapterSources = NoBindings
    /\ feedEntries = NoRows
    /\ ing = NoIngests
    /\ gap = NoGapRun
    /\ bucket = FullBucket
    /\ clock = 0
    /\ acq = [w \in Workers |-> NotAcquiring]
    /\ grants = <<>>
    /\ calls = 0
    /\ act = NoActionWrites
    /\ feedDb = 0
    /\ fver = 0
    /\ fcache = [v \in Versions |-> NotCached]
    /\ patch = "idle"
    /\ gets = [g \in Gets |-> NoGet]
    /\ pg = NoPaging
    /\ rl = NoLimiter
    /\ mg = NoMerge

Next ==
    \/ \E type \in ActionTypes : Enqueue(type)
    \/ SerialStart
    \/ \E p \in PassIds : BatchOk(p)
    \/ \E p \in PassIds : BatchFail(p)
    \/ \E p \in PassIds : SeqResponse(p)

Spec == Init /\ [][Next]_vars

\* the catalogs the progress specifications start from: per chapter number a
\* LogicalChapter exists or not, a legacy Chapter row exists or not
Catalogs == [logical : {{}, Chapters}, legacy : {{}, Chapters}]

\* progress updates of several devices to one logical chapter, transactions overlapping
LwwPayloads(r) ==
    {Payload(1, isRead, ts, r, r) : isRead \in BOOLEAN, ts \in ClientTimes}

LwwInit ==
    /\ outbox = <<>>
    /\ nextId = 0
    /\ pass = [p \in PassIds |-> IdlePass]
    /\ event = NoEvent
    /\ catalog = [logical |-> Chapters, legacy |-> {}]
    /\ db = EmptyDb
    /\ req = [r \in Requests |-> NoReq]
    /\ started = 0
    /\ lastDone = NoPayload
    /\ recon = IdleRecon
    /\ entries = OwnerFollows
    /\ total_follows = 1
    /\ lreq = NoLibraryRequests
    /\ call = NoCall
    /\ jobs = NoJobs
    /\ workerFailure = <<>>
    /\ retry = NoRetry
    /\ sources = NoSources
    /\ waiting = 0
    /\ sched = NoRun
    /\ ipq = NoIpQuery
    /\ logicalChapters = NoRows
    /\ chapterSources = NoBindings
    /\ feedEntries = NoRows
    /\ ing = NoIngests
    /\ gap = NoGapRun
    /\ bucket = FullBucket
    /\ clock = 0
    /\ acq = [w \in Workers |-> NotAcquiring]
    /\ grants = <<>>
    /\ calls = 0
    /\ act = NoActionWrites
    /\ feedDb = 0
    /\ fver = 0
    /\ fcache = [v \in Versions |-> NotCached]
    /\ patch = "idle"
    /\ gets = [g \in Gets |-> NoGet]
    /\ pg = NoPaging
    /\ rl = NoLimiter
    /\ mg = NoMerge

LwwBegin == \E r \in Requests : \E pl \in LwwPayloads(r) : Begin(r, pl)

LwwNext ==
    \/ LwwBegin
    \/ \E r \in Requests : ReadEntry(r)
    \/ \E r \in Requests : ReadChapter(r)
    \/ \E r \in Requests : Commit(r)
    \/ \E r \in Requests : Rollback(r)

SpecLww == LwwInit /\ [][LwwNext]_vars

\* progress updates of one device sent one after the other
ReplayPayloads ==
    {Payload(c, isRead, ts, 1, 1) : c \in Chapters, isRead \in BOOLEAN, ts \in ClientTimes}

ReplayInit ==
    /\ outbox = <<>>
    /\ nextId = 0
    /\ pass = [p \in PassIds |-> IdlePass]
    /\ event = NoEvent
    /\ catalog \in Catalogs
    /\ db = EmptyDb
    /\ req = [r \in Requests |-> NoReq]
    /\ started = 0
    /\ lastDone = NoPayload
    /\ recon = IdleRecon
    /\ entries = OwnerFollows
    /\ total_follows = 1
    /\ lreq = NoLibraryRequests
    /\ call = NoCall
    /\ jobs = NoJobs
    /\ workerFailure = <<>>
    /\ retry = NoRetry
    /\ sources = NoSources
    /\ waiting = 0
    /\ sched = NoRun
    /\ ipq = NoIpQuery
    /\ logicalChapters = NoRows
    /\ chapterSources = NoBindings
    /\ feedEntries = NoRows
    /\ ing = NoIngests
    /\ gap = NoGapRun
    /\ bucket = FullBucket
    /\ clock = 0
    /\ acq = [w \in Workers |-> NotAcquiring]
    /\ grants = <<>>
    /\ calls = 0
    /\ act = NoActionWrites
    /\ feedDb = 0
    /\ fver = 0
    /\ fcache = [v \in Versions |-> NotCached]
    /\ patch = "idle"
    /\ gets = [g \in Gets |-> NoGet]
    /\ pg = NoPaging
    /\ rl = NoLimiter
    /\ mg = NoMerge

ReplayBegin ==
    /\ \A q \in Requests : ~Active(q)
    /\ \E r \in Requests : \E pl \in ReplayPayloads : Begin(r, pl)

ReplayNext ==
    \/ ReplayBegin
    \/ \E r \in Requests : ReadEntry(r)
    \/ \E r \in Requests : ReadChapter(r)
    \/ \E r \in Requests : Commit(r)
    \/ \E r \in Requests : Rollback(r)

SpecReplay == ReplayInit /\ [][ReplayNext]_vars

\* progress updates sent one after the other, and the periodic reconciliation
ReconcileNext ==
    \/ ReplayBegin
    \/ \E r \in Requests : ReadEntry(r)
    \/ \E r \in Requests : ReadChapter(r)
    \/ \E r \in Requests : Commit(r)
    \/ \E r \in Requests : Rollback(r)
    \/ ReconcileRead
    \/ ReconcileWrite

SpecReconcile == ReplayInit /\ [][ReconcileNext]_vars

\* calls of any kind on the extended client, on the table of a soft-delete model
SoftDeleteInit ==
    /\ outbox = <<>>
    /\ nextId = 0
    /\ pass = [p \in PassIds |-> IdlePass]
    /\ event = NoEvent
    /\ catalog = [logical |-> {}, legacy |-> {}]
    /\ db = EmptyDb
    /\ req = [r \in Requests |-> NoReq]
    /\ started = 0
    /\ lastDone = NoPayload
    /\ recon = IdleRecon
    /\ entries = [u \in Users |-> NoEntry]
    /\ total_follows = 0
    /\ lreq = NoLibraryRequests
    /\ call = NoCall
    /\ jobs = NoJobs
    /\ workerFailure = <<>>
    /\ retry = NoRetry
    /\ sources = NoSources
    /\ waiting = 0
    /\ sched = NoRun
    /\ ipq = NoIpQuery
    /\ logicalChapters = NoRows
    /\ chapterSources = NoBindings
    /\ feedEntries = NoRows
    /\ ing = NoIngests
    /\ gap = NoGapRun
    /\ bucket = FullBucket
    /\ clock = 0
    /\ acq = [w \in Workers |-> NotAcquiring]
    /\ grants = <<>>
    /\ calls = 0
    /\ act = NoActionWrites
    /\ feedDb = 0
    /\ fver = 0
    /\ fcache = [v \in Versions |-> NotCached]
    /\ patch = "idle"
    /\ gets = [g \in Gets |-> NoGet]
    /\ pg = NoPaging
    /\ rl = NoLimiter
    /\ mg = NoMerge

ClientRead ==
    \E model \in SOFT_DELETE_MODELS : \E operation \in ReadOperations :
        ClientCall(model, operation)

ClientWrite ==
    \E model \in SOFT_DELETE_MODELS : \E operation \in WriteOperations :
        ClientCall(model, operation)

SoftDeleteNext ==
    \/ ClientRead
    \/ ClientWrite

SpecSoftDelete == SoftDeleteInit /\ [][SoftDeleteNext]_vars

\* users adding the series to their library and removing it, requests overlapping
LibraryInit ==
    /\ outbox = <<>>
    /\ nextId = 0
    /\ pass = [p \in PassIds |-> IdlePass]
    /\ event = NoEvent
    /\ catalog = [logical |-> {}, legacy |-> {}]
    /\ db = EmptyDb
    /\ req = [r \in Requests |-> NoReq]
    /\ started = 0
    /\ lastDone = NoPayload
    /\ recon = IdleRecon
    /\ entries = [u \in Users |-> NoEntry]
    /\ total_follows = 0
    /\ lreq = NoLibraryRequests
    /\ call = NoCall
    /\ jobs = NoJobs
    /\ workerFailure = <<>>
    /\ retry = NoRetry
    /\ sources = NoSources
    /\ waiting = 0
    /\ sched = NoRun
    /\ ipq = NoIpQuery
    /\ logicalChapters = NoRows
    /\ chapterSources = NoBindings
    /\ feedEntries = NoRows
    /\ ing = NoIngests
    /\ gap = NoGapRun
    /\ bucket = FullBucket
    /\ clock = 0
    /\ acq = [w \in Workers |-> NotAcquiring]
    /\ grants = <<>>
    /\ calls = 0
    /\ act = NoActionWrites
    /\ feedDb = 0
    /\ fver = 0
    /\ fcache = [v \in Versions |-> NotCached]
    /\ patch = "idle"
    /\ gets = [g \in Gets |-> NoGet]
    /\ pg = NoPaging
    /\ rl = NoLimiter
    /\ mg = NoMerge

Remove == \E k \in LibRequests : \E op \in RemoveOps : \E u, e \in Users : RemoveFind(k, op, u, e)

LibraryNext ==
    \/ \E k \in LibRequests : \E u \in Users : PostFind(k, u)
    \/ \E k \in LibRequests : PostUpsert(k)
    \/ \E k \in LibRequests : \E u \in Users : addToLibrary(k, u)
    \/ Remove
    \/ \E k \in LibRequests : RemoveSoftDelete(k)
    \/ \E k \in LibRequests : RemoveDecrement(k)
    \/ \E k \in LibRequests : RemoveFail(k)

SpecLibrary == LibraryInit /\ [][LibraryNext]_vars

\* the owner follows the series; the owner and another signed-in user send
\* progress updates and removals for the owner's entry, one request at a time
OwnerPayloads == {Payload(1, TRUE, 1, 1, 1)}

OwnerInit ==
    /\ outbox = <<>>
    /\ nextId = 0
    /\ pass = [p \in PassIds |-> IdlePass]
    /\ event = NoEvent
    /\ catalog = [logical |-> Chapters, legacy |-> Chapters]
    /\ db = EmptyDb
    /\ req = [r \in Requests |-> NoReq]
    /\ started = 0
    /\ lastDone = NoPayload
    /\ recon = IdleRecon
    /\ entries = OwnerFollows
    /\ total_follows = 1
    /\ lreq = NoLibraryRequests
    /\ call = NoCall
    /\ jobs = NoJobs
    /\ workerFailure = <<>>
    /\ retry = NoRetry
    /\ sources = NoSources
    /\ waiting = 0
    /\ sched = NoRun
    /\ ipq = NoIpQuery
    /\ logicalChapters = NoRows
    /\ chapterSources = NoBindings
    /\ feedEntries = NoRows
    /\ ing = NoIngests
    /\ gap = NoGapRun
    /\ bucket = FullBucket
    /\ clock = 0
    /\ acq = [w \in Workers |-> NotAcquiring]
    /\ grants = <<>>
    /\ calls = 0
    /\ act = NoActionWrites
    /\ feedDb = 0
    /\ fver = 0
    /\ fcache = [v \in Versions |-> NotCached]
    /\ patch = "idle"
    /\ gets = [g \in Gets |-> NoGet]
    /\ pg = NoPaging
    /\ rl = NoLimiter
    /\ mg = NoMerge

\* no request of either kind is being handled
Quiet ==
    /\ \A q \in Requests : ~Active(q)
    /\ \A k \in LibRequests : lreq[k].pc \in {"new", "done"}

\* the library requests are numbered in the order of their arrival
NextLibRequest == Cardinality({k \in LibRequests : lreq[k].pc # "new"}) + 1

OwnerBegin ==
    /\ Quiet
    /\ \E r \in Requests : \E pl \in OwnerPayloads : \E u \in Users : BeginAs(r, pl, u)

OwnerRemove ==
    /\ Quiet
    /\ NextLibRequest \in LibRequests
    /\ \E op \in RemoveOps : \E u \in Users : RemoveFind(NextLibRequest, op, u, Owner)

OwnerNext ==
    \/ OwnerBegin
    \/ \E r \in Requests : ReadEntry(r)
    \/ \E r \in Requests : EntryNotFound(r)
    \/ \E r \in Requests : ReadChapter(r)
    \/ \E r \in Requests : Commit(r)
    \/ \E r \in Requests : Rollback(r)
    \/ OwnerRemove
    \/ \E k \in LibRequests : RemoveSoftDelete(k)
    \/ \E k \in LibRequests : RemoveDecrement(k)
    \/ \E k \in LibRequests : RemoveFail(k)

SpecOwner == OwnerInit /\ [][OwnerNext]_vars

\* the jobs of one queue are added and attempted until each is completed or failed
WorkerInit ==
    /\ outbox = <<>>
    /\ nextId = 0
    /\ pass = [p \in PassIds |-> IdlePass]
    /\ event = NoEvent
    /\ catalog = [logical |-> {}, legacy |-> {}]
    /\ db = EmptyDb
    /\ req = [r \in Requests |-> NoReq]
    /\ started = 0
    /\ lastDone = NoPayload
    /\ recon = IdleRecon
    /\ entries = OwnerFollows
    /\ total_follows = 1
    /\ lreq = NoLibraryRequests
    /\ call = NoCall
    /\ jobs = NoJobs
    /\ workerFailure = <<>>
    /\ retry = NoRetry
    /\ sources = NoSources
    /\ waiting = 0
    /\ sched = NoRun
    /\ ipq = NoIpQuery
    /\ logicalChapters = NoRows
    /\ chapterSources = NoBindings
    /\ feedEntries = NoRows
    /\ ing = NoIngests
    /\ gap = NoGapRun
    /\ bucket = FullBucket
    /\ clock = 0
    /\ acq = [w \in Workers |-> NotAcquiring]
    /\ grants = <<>>
    /\ calls = 0
    /\ act = NoActionWrites
    /\ feedDb = 0
    /\ fver = 0
    /\ fcache = [v \in Versions |-> NotCached]
    /\ patch = "idle"
    /\ gets = [g \in Gets |-> NoGet]
    /\ pg = NoPaging
    /\ rl = NoLimiter
    /\ mg = NoMerge

WorkerNext ==
    \/ \E j \in Jobs : \E attempts \in AttemptOptions : AddJob(j, attempts)
    \/ \E j \in Jobs : ProcessOk(j)
    \/ \E j \in Jobs : \E error \in Outcomes : \E created \in BOOLEAN :
           ProcessThrow(j, error, created)

SpecWorker == WorkerInit /\ [][WorkerNext]_vars

\* one call of withRetry, the operation failing with any of the errors or returning
RetryInit ==
    /\ outbox = <<>>
    /\ nextId = 0
    /\ pass = [p \in PassIds |-> IdlePass]
    /\ event = NoEvent
    /\ catalog = [logical |-> {}, legacy |-> {}]
    /\ db = EmptyDb
    /\ req = [r \in Requests |-> NoReq]
    /\ started = 0
    /\ lastDone = NoPayload
    /\ recon = IdleRecon
    /\ entries = OwnerFollows
    /\ total_follows = 1
    /\ lreq = NoLibraryRequests
    /\ call = NoCall
    /\ jobs = NoJobs
    /\ workerFailure = <<>>
    /\ retry = NoRetry
    /\ sources = NoSources
    /\ waiting = 0
    /\ sched = NoRun
    /\ ipq = NoIpQuery
    /\ logicalChapters = NoRows
    /\ chapterSources = NoBindings
    /\ feedEntries = NoRows
    /\ ing = NoIngests
    /\ gap = NoGapRun
    /\ bucket = FullBucket
    /\ clock = 0
    /\ acq = [w \in Workers |-> NotAcquiring]
    /\ grants = <<>>
    /\ calls = 0
    /\ act = NoActionWrites
    /\ feedDb = 0
    /\ fver = 0
    /\ fcache = [v \in Versions |-> NotCached]
    /\ patch = "idle"
    /\ gets = [g \in Gets |-> NoGet]
    /\ pg = NoPaging
    /\ rl = NoLimiter
    /\ mg = NoMerge

RetryNext ==
    \/ CallWithRetry
    \/ OperationReturns
    \/ \E error \in Errors : OperationThrows(error)

SpecRetry == RetryInit /\ [][RetryNext]_vars

\* scheduler runs over two sources of series of any tier, first due at any
\* time, with a crawl queue that other producers and the crawl workers share
SchedulerInit ==
    /\ outbox = <<>>
    /\ nextId = 0
    /\ pass = [p \in PassIds |-> IdlePass]
    /\ event = NoEvent
    /\ catalog = [logical |-> {}, legacy |-> {}]
    /\ db = EmptyDb
    /\ req = [r \in Requests |-> NoReq]
    /\ started = 0
    /\ lastDone = NoPayload
    /\ recon = IdleRecon
    /\ entries = OwnerFollows
    /\ total_follows = 1
    /\ lreq = NoLibraryRequests
    /\ call = NoCall
    /\ jobs = NoJobs
    /\ workerFailure = <<>>
    /\ retry = NoRetry
    /\ sources \in [Sources -> [tier : Tiers, next_check_at : Times, failure_count : {0}]]
    /\ waiting = 0
    /\ sched = NoRun
    /\ ipq = NoIpQuery
    /\ logicalChapters = NoRows
    /\ chapterSources = NoBindings
    /\ feedEntries = NoRows
    /\ ing = NoIngests
    /\ gap = NoGapRun
    /\ bucket = FullBucket
    /\ clock = 0
    /\ acq = [w \in Workers |-> NotAcquiring]
    /\ grants = <<>>
    /\ calls = 0
    /\ act = NoActionWrites
    /\ feedDb = 0
    /\ fver = 0
    /\ fcache = [v \in Versions |-> NotCached]
    /\ patch = "idle"
    /\ gets = [g \in Gets |-> NoGet]
    /\ pg = NoPaging
    /\ rl = NoLimiter
    /\ mg = NoMerge

SchedulerNext ==
    \/ runMasterScheduler
    \/ EnqueueFails
    \/ Tick
    \/ \E s \in Sources : \E ok \in BOOLEAN : Crawl(s, ok)
    \/ OtherEnqueue

SpecScheduler == SchedulerInit /\ [][SchedulerNext]_vars


\* isIpInRange on any of the addresses, ranges and prefix lengths
IpInit ==
    /\ outbox = <<>>
    /\ nextId = 0
    /\ pass = [p \in PassIds |-> IdlePass]
    /\ event = NoEvent
    /\ catalog = [logical |-> {}, legacy |-> {}]
    /\ db = EmptyDb
    /\ req = [r \in Requests |-> NoReq]
    /\ started = 0
    /\ lastDone = NoPayload
    /\ recon = IdleRecon
    /\ entries = OwnerFollows
    /\ total_follows = 1
    /\ lreq = NoLibraryRequests
    /\ call = NoCall
    /\ jobs = NoJobs
    /\ workerFailure = <<>>
    /\ retry = NoRetry
    /\ sources = NoSources
    /\ waiting = 0
    /\ sched = NoRun
    /\ ipq \in [ip : Addresses, range : Addresses, bits : PrefixLengths, asked : {FALSE}, answer : {FALSE}]
    /\ logicalChapters = NoRows
    /\ chapterSources = NoBindings
    /\ feedEntries = NoRows
    /\ ing = NoIngests
    /\ gap = NoGapRun
    /\ bucket = FullBucket
    /\ clock = 0
    /\ acq = [w \in Workers |-> NotAcquiring]
    /\ grants = <<>>
    /\ calls = 0
    /\ act = NoActionWrites
    /\ feedDb = 0
    /\ fver = 0
    /\ fcache = [v \in Versions |-> NotCached]
    /\ patch = "idle"
    /\ gets = [g \in Gets |-> NoGet]
    /\ pg = NoPaging
    /\ rl = NoLimiter
    /\ mg = NoMerge

IpNext ==
    \/ CheckIp

SpecIp == IpInit /\ [][IpNext]_vars


\* users add the series with POST /api/library, add it again and remove it,
\* one request after the other; the series keeps its primary source
SequenceInit ==
    /\ outbox = <<>>
    /\ nextId = 0
    /\ pass = [p \in PassIds |-> IdlePass]
    /\ event = NoEvent
    /\ catalog = [logical |-> {}, legacy |-> {}]
    /\ db = EmptyDb
    /\ req = [r \in Requests |-> NoReq]
    /\ started = 0
    /\ lastDone = NoPayload
    /\ recon = IdleRecon
    /\ entries \in {[u \in Users |-> NoEntry], OwnerFollows}
    /\ total_follows = IF entries[Owner].exists THEN 1 ELSE 0
    /\ lreq = NoLibraryRequests
    /\ call = NoCall
    /\ jobs = NoJobs
    /\ workerFailure = <<>>
    /\ retry = NoRetry
    /\ sources = NoSources
    /\ waiting = 0
    /\ sched = NoRun
    /\ ipq = NoIpQuery
    /\ logicalChapters = NoRows
    /\ chapterSources = NoBindings
    /\ feedEntries = NoRows
    /\ ing = NoIngests
    /\ gap = NoGapRun
    /\ bucket = FullBucket
    /\ clock = 0
    /\ acq = [w \in Workers |-> NotAcquiring]
    /\ grants = <<>>
    /\ calls = 0
    /\ act = NoActionWrites
    /\ feedDb = 0
    /\ fver = 0
    /\ fcache = [v \in Versions |-> NotCached]
    /\ patch = "idle"
    /\ gets = [g \in Gets |-> NoGet]
    /\ pg = NoPaging
    /\ rl = NoLimiter
    /\ mg = NoMerge

SequencePost ==
    /\ Quiet
    /\ NextLibRequest \in LibRequests
    /\ \E u \in Users : PostFind(NextLibRequest, u)

SequenceRemove ==
    /\ Quiet
    /\ NextLibRequest \in LibRequests
    /\ \E op \in RemoveOps : \E u \in Users : RemoveFind(NextLibRequest, op, u, u)

SequenceNext ==
    \/ SequencePost
    \/ \E k \in LibRequests : PostUpsert(k)
    \/ SequenceRemove
    \/ \E k \in LibRequests : RemoveSoftDelete(k)
    \/ \E k \in LibRequests : RemoveDecrement(k)
    \/ \E k \in LibRequests : RemoveFail(k)

SpecSequence == SequenceInit /\ [][SequenceNext]_vars


\* reports of the chapters of one series from its sources, redelivered and
\* overlapping in any way
IngestInit ==
    /\ outbox = <<>>
    /\ nextId = 0
    /\ pass = [p \in PassIds |-> IdlePass]
    /\ event = NoEvent
    /\ catalog = [logical |-> {}, legacy |-> {}]
    /\ db = EmptyDb
    /\ req = [r \in Requests |-> NoReq]
    /\ started = 0
    /\ lastDone = NoPayload
    /\ recon = IdleRecon
    /\ entries = OwnerFollows
    /\ total_follows = 1
    /\ lreq = NoLibraryRequests
    /\ call = NoCall
    /\ jobs = NoJobs
    /\ workerFailure = <<>>
    /\ retry = NoRetry
    /\ sources = NoSources
    /\ waiting = 0
    /\ sched = NoRun
    /\ ipq = NoIpQuery
    /\ logicalChapters = NoRows
    /\ chapterSources = NoBindings
    /\ feedEntries = NoRows
    /\ ing = NoIngests
    /\ gap = NoGapRun
    /\ bucket = FullBucket
    /\ clock = 0
    /\ acq = [w \in Workers |-> NotAcquiring]
    /\ grants = <<>>
    /\ calls = 0
    /\ act = NoActionWrites
    /\ feedDb = 0
    /\ fver = 0
    /\ fcache = [v \in Versions |-> NotCached]
    /\ patch = "idle"
    /\ gets = [g \in Gets |-> NoGet]
    /\ pg = NoPaging
    /\ rl = NoLimiter
    /\ mg = NoMerge

IngestNext ==
    \/ \E i \in Ingests : \E source \in Sources : \E chapter \in Chapters :
           IngestLogical(i, source, chapter)
    \/ \E i \in Ingests : IngestBind(i)
    \/ \E i \in Ingests : IngestCommit(i)
    \/ \E i \in Ingests : IngestFail(i)

SpecIngest == IngestInit /\ [][IngestNext]_vars


\* gap recovery on a series with any set of chapter numbers and sources of any health
GapInit ==
    /\ outbox = <<>>
    /\ nextId = 0
    /\ pass = [p \in PassIds |-> IdlePass]
    /\ event = NoEvent
    /\ catalog = [logical |-> {}, legacy |-> {}]
    /\ db = EmptyDb
    /\ req = [r \in Requests |-> NoReq]
    /\ started = 0
    /\ lastDone = NoPayload
    /\ recon = IdleRecon
    /\ entries = OwnerFollows
    /\ total_follows = 1
    /\ lreq = NoLibraryRequests
    /\ call = NoCall
    /\ jobs = NoJobs
    /\ workerFailure = <<>>
    /\ retry = NoRetry
    /\ sources \in [Sources -> [tier : {"C"}, next_check_at : {0}, failure_count : {0, FailureCeiling}]]
    /\ waiting = 0
    /\ sched = NoRun
    /\ ipq = NoIpQuery
    /\ logicalChapters = NoRows
    /\ chapterSources = NoBindings
    /\ feedEntries = NoRows
    /\ ing = NoIngests
    /\ gap \in [chapters : SUBSET ChapterNumbers, ran : {FALSE}, gaps : {{}}, result : {NoGapRun.result}]
    /\ bucket = FullBucket
    /\ clock = 0
    /\ acq = [w \in Workers |-> NotAcquiring]
    /\ grants = <<>>
    /\ calls = 0
    /\ act = NoActionWrites
    /\ feedDb = 0
    /\ fver = 0
    /\ fcache = [v \in Versions |-> NotCached]
    /\ patch = "idle"
    /\ gets = [g \in Gets |-> NoGet]
    /\ pg = NoPaging
    /\ rl = NoLimiter
    /\ mg = NoMerge

GapNext ==
    \/ processGapRecovery

SpecGap == GapInit /\ [][GapNext]_vars


\* crawl workers acquiring tokens of one source, from a full bucket
RateInit ==
    /\ outbox = <<>>
    /\ nextId = 0
    /\ pass = [p \in PassIds |-> IdlePass]
    /\ event = NoEvent
    /\ catalog = [logical |-> {}, legacy |-> {}]
    /\ db = EmptyDb
    /\ req = [r \in Requests |-> NoReq]
    /\ started = 0
    /\ lastDone = NoPayload
    /\ recon = IdleRecon
    /\ entries = OwnerFollows
    /\ total_follows = 1
    /\ lreq = NoLibraryRequests
    /\ call = NoCall
    /\ jobs = NoJobs
    /\ workerFailure = <<>>
    /\ retry = NoRetry
    /\ sources = NoSources
    /\ waiting = 0
    /\ sched = NoRun
    /\ ipq = NoIpQuery
    /\ logicalChapters = NoRows
    /\ chapterSources = NoBindings
    /\ feedEntries = NoRows
    /\ ing = NoIngests
    /\ gap = NoGapRun
    /\ bucket = FullBucket
    /\ clock = 0
    /\ acq = [w \in Workers |-> NotAcquiring]
    /\ grants = <<>>
    /\ calls = 0
    /\ act = NoActionWrites
    /\ feedDb = 0
    /\ fver = 0
    /\ fcache = [v \in Versions |-> NotCached]
    /\ patch = "idle"
    /\ gets = [g \in Gets |-> NoGet]
    /\ pg = NoPaging
    /\ rl = NoLimiter
    /\ mg = NoMerge

RateNext ==
    \/ \E w \in Workers : AcquireToken(w)
    \/ \E w \in Workers : WakeUp(w)
    \/ TickClock

SpecRate == RateInit /\ [][RateNext]_vars


\* processOutbox invoked again while the earlier invocation awaits a response:
\* nothing in processOutbox tells a running pass from none
OverlappingStart == ~Resting(1) /\ StartPass(2)

OverlapNext ==
    \/ \E type \in ActionTypes : Enqueue(type)
    \/ SerialStart
    \/ OverlappingStart
    \/ \E p \in PassIds : BatchOk(p)
    \/ \E p \in PassIds : BatchFail(p)
    \/ \E p \in PassIds : SeqResponse(p)

SpecOverlap == Init /\ [][OverlapNext]_vars


\* the same progress writes through PATCH progress, one after the other, and
\* through updateProgress
PathPayloads == {Payload(c, TRUE, 1, 1, 1) : c \in Chapters}

PathInit ==
    /\ outbox = <<>>
    /\ nextId = 0
    /\ pass = [p \in PassIds |-> IdlePass]
    /\ event = NoEvent
    /\ catalog \in Catalogs
    /\ db = EmptyDb
    /\ req = [r \in Requests |-> NoReq]
    /\ started = 0
    /\ lastDone = NoPayload
    /\ recon = IdleRecon
    /\ entries = OwnerFollows
    /\ total_follows = 1
    /\ lreq = NoLibraryRequests
    /\ call = NoCall
    /\ jobs = NoJobs
    /\ workerFailure = <<>>
    /\ retry = NoRetry
    /\ sources = NoSources
    /\ waiting = 0
    /\ sched = NoRun
    /\ ipq = NoIpQuery
    /\ logicalChapters = NoRows
    /\ chapterSources = NoBindings
    /\ feedEntries = NoRows
    /\ ing = NoIngests
    /\ gap = NoGapRun
    /\ bucket = FullBucket
    /\ clock = 0
    /\ acq = [w \in Workers |-> NotAcquiring]
    /\ grants = <<>>
    /\ calls = 0
    /\ act = NoActionWrites
    /\ feedDb = 0
    /\ fver = 0
    /\ fcache = [v \in Versions |-> NotCached]
    /\ patch = "idle"
    /\ gets = [g \in Gets |-> NoGet]
    /\ pg = NoPaging
    /\ rl = NoLimiter
    /\ mg = NoMerge

PathBegin ==
    /\ \A q \in Requests : ~Active(q)
    /\ \E r \in Requests : \E pl \in PathPayloads : Begin(r, pl)

PathNext ==
    \/ PathBegin
    \/ \E r \in Requests : ReadEntry(r)
    \/ \E r \in Requests : ReadChapter(r)
    \/ \E r \in Requests : Commit(r)
    \/ \E r \in Requests : updateProgress(r)

SpecPaths == PathInit /\ [][PathNext]_vars


\* progress updates and activity feed requests of one user, overlapping
FeedCacheInit ==
    /\ outbox = <<>>
    /\ nextId = 0
    /\ pass = [p \in PassIds |-> IdlePass]
    /\ event = NoEvent
    /\ catalog = [logical |-> {}, legacy |-> {}]
    /\ db = EmptyDb
    /\ req = [r \in Requests |-> NoReq]
    /\ started = 0
    /\ lastDone = NoPayload
    /\ recon = IdleRecon
    /\ entries = OwnerFollows
    /\ total_follows = 1
    /\ lreq = NoLibraryRequests
    /\ call = NoCall
    /\ jobs = NoJobs
    /\ workerFailure = <<>>
    /\ retry = NoRetry
    /\ sources = NoSources
    /\ waiting = 0
    /\ sched = NoRun
    /\ ipq = NoIpQuery
    /\ logicalChapters = NoRows
    /\ chapterSources = NoBindings
    /\ feedEntries = NoRows
    /\ ing = NoIngests
    /\ gap = NoGapRun
    /\ bucket = FullBucket
    /\ clock = 0
    /\ acq = [w \in Workers |-> NotAcquiring]
    /\ grants = <<>>
    /\ calls = 0
    /\ act = NoActionWrites
    /\ feedDb = 0
    /\ fver = 0
    /\ fcache = [v \in Versions |-> NotCached]
    /\ patch = "idle"
    /\ gets = [g \in Gets |-> NoGet]
    /\ pg = NoPaging
    /\ rl = NoLimiter
    /\ mg = NoMerge

FeedCacheNext ==
    \/ PatchWrites
    \/ PatchInvalidate
    \/ PatchCommit
    \/ PatchRollback
    \/ \E g \in Gets : GetVersion(g)
    \/ \E g \in Gets : GetSetVersion(g)
    \/ \E g \in Gets : GetLookup(g)
    \/ \E g \in Gets : GetQuery(g)
    \/ \E g \in Gets : GetStore(g)
    \/ \E v \in Versions : Expire(v)

SpecFeedCache == FeedCacheInit /\ [][FeedCacheNext]_vars


\* a client pages over a fixed feed of any size with any limit
PagingInit ==
    /\ outbox = <<>>
    /\ nextId = 0
    /\ pass = [p \in PassIds |-> IdlePass]
    /\ event = NoEvent
    /\ catalog = [logical |-> {}, legacy |-> {}]
    /\ db = EmptyDb
    /\ req = [r \in Requests |-> NoReq]
    /\ started = 0
    /\ lastDone = NoPayload
    /\ recon = IdleRecon
    /\ entries = OwnerFollows
    /\ total_follows = 1
    /\ lreq = NoLibraryRequests
    /\ call = NoCall
    /\ jobs = NoJobs
    /\ workerFailure = <<>>
    /\ retry = NoRetry
    /\ sources = NoSources
    /\ waiting = 0
    /\ sched = NoRun
    /\ ipq = NoIpQuery
    /\ logicalChapters = NoRows
    /\ chapterSources = NoBindings
    /\ feedEntries = NoRows
    /\ ing = NoIngests
    /\ gap = NoGapRun
    /\ bucket = FullBucket
    /\ clock = 0
    /\ acq = [w \in Workers |-> NotAcquiring]
    /\ grants = <<>>
    /\ calls = 0
    /\ act = NoActionWrites
    /\ feedDb = 0
    /\ fver = 0
    /\ fcache = [v \in Versions |-> NotCached]
    /\ patch = "idle"
    /\ gets = [g \in Gets |-> NoGet]
    /\ pg \in {[NoPaging EXCEPT !.feed = f, !.limit = l] : f \in SUBSET DetectedAt, l \in Limits}
    /\ rl = NoLimiter
    /\ mg = NoMerge

PagingNext ==
    \/ FetchPage

SpecPaging == PagingInit /\ [][PagingNext]_vars


\* timestamped requests on one key, for any limit and window
LimiterInit ==
    /\ outbox = <<>>
    /\ nextId = 0
    /\ pass = [p \in PassIds |-> IdlePass]
    /\ event = NoEvent
    /\ catalog = [logical |-> {}, legacy |-> {}]
    /\ db = EmptyDb
    /\ req = [r \in Requests |-> NoReq]
    /\ started = 0
    /\ lastDone = NoPayload
    /\ recon = IdleRecon
    /\ entries = OwnerFollows
    /\ total_follows = 1
    /\ lreq = NoLibraryRequests
    /\ call = NoCall
    /\ jobs = NoJobs
    /\ workerFailure = <<>>
    /\ retry = NoRetry
    /\ sources = NoSources
    /\ waiting = 0
    /\ sched = NoRun
    /\ ipq = NoIpQuery
    /\ logicalChapters = NoRows
    /\ chapterSources = NoBindings
    /\ feedEntries = NoRows
    /\ ing = NoIngests
    /\ gap = NoGapRun
    /\ bucket = FullBucket
    /\ clock = 0
    /\ acq = [w \in Workers |-> NotAcquiring]
    /\ grants = <<>>
    /\ calls = 0
    /\ act = NoActionWrites
    /\ feedDb = 0
    /\ fver = 0
    /\ fcache = [v \in Versions |-> NotCached]
    /\ patch = "idle"
    /\ gets = [g \in Gets |-> NoGet]
    /\ pg = NoPaging
    /\ rl \in {[NoLimiter EXCEPT !.maxRequests = m, !.windowMs = w] : m \in 1..MaxAllowed, w \in 1..MaxWindow}
    /\ mg = NoMerge

LimiterNext ==
    \/ checkRateLimit
    \/ Elapse

SpecLimiter == LimiterInit /\ [][LimiterNext]_vars


\* a resolution job that merges, beside progress updates of the user
MergeInit ==
    /\ outbox = <<>>
    /\ nextId = 0
    /\ pass = [p \in PassIds |-> IdlePass]
    /\ event = NoEvent
    /\ catalog = [logical |-> {}, legacy |-> {}]
    /\ db = EmptyDb
    /\ req = [r \in Requests |-> NoReq]
    /\ started = 0
    /\ lastDone = NoPayload
    /\ recon = IdleRecon
    /\ entries = OwnerFollows
    /\ total_follows = 1
    /\ lreq = NoLibraryRequests
    /\ call = NoCall
    /\ jobs = NoJobs
    /\ workerFailure = <<>>
    /\ retry = NoRetry
    /\ sources = NoSources
    /\ waiting = 0
    /\ sched = NoRun
    /\ ipq = NoIpQuery
    /\ logicalChapters = NoRows
    /\ chapterSources = NoBindings
    /\ feedEntries = NoRows
    /\ ing = NoIngests
    /\ gap = NoGapRun
    /\ bucket = FullBucket
    /\ clock = 0
    /\ acq = [w \in Workers |-> NotAcquiring]
    /\ grants = <<>>
    /\ calls = 0
    /\ act = NoActionWrites
    /\ feedDb = 0
    /\ fver = 0
    /\ fcache = [v \in Versions |-> NotCached]
    /\ patch = "idle"
    /\ gets = [g \in Gets |-> NoGet]
    /\ pg = NoPaging
    /\ rl = NoLimiter
    /\ mg \in {[NoMerge EXCEPT !.redundant = r, !.duplicate = d, !.enriched = e] : r \in Progress, d \in Progress, e \in BOOLEAN}

MergeNext ==
    \/ ResolutionRead
    \/ \E entry \in {"redundant", "duplicate"} : \E c \in Chapters : ProgressCommits(entry, c)
    \/ MergeRead
    \/ MergeWrite

SpecMerge == MergeInit /\ [][MergeNext]_vars


(***************************************************************************)
(* Claims about the outbox drain pass (checked under Spec)                 *)
(***************************************************************************)
InOutbox(id) == id \in Ids(outbox)

Queued(id) == CHOOSE a \in Range(outbox) : a.id = id

\* the action of pass p's snapshot with this id
Snap(p, id) == CHOOSE a \in Range(pass[p].cr) \cup Range(pass[p].others) : a.id = id

\* the action was retried once since the snapshot and is otherwise as it was
RetriedOnce(a) == InOutbox(a.id) /\ Queued(a.id) = [a EXCEPT !.retryCount = @ + 1]

Untouched(a) == InOutbox(a.id) /\ Queued(a.id) = a

\* C1: after an OK batch answer with per-item results, every CHAPTER_READ action
\* reported 'success' is gone from the outbox, every action reported otherwise is
\* still queued with its retryCount one higher, and the sequential actions of the
\* snapshot are as they were.
C1_BatchPerItem ==
    \A p \in PassIds :
        (event.kind = "batchOk" /\ event.pass = p) =>
            /\ \A i \in 1..Len(pass[p].cr) :
                IF event.results[i].status = "success"
                THEN ~InOutbox(pass[p].cr[i].id)
                ELSE RetriedOnce(pass[p].cr[i])
            /\ \A a \in Range(pass[p].others) : Untouched(a)

C1_Witness ==
    /\ event.kind = "batchOk"
    /\ Succeeded(event.results) # {}
    /\ Failed(event.results) # {}

\* C2: no request in flight carries an action whose retryCount was at or above
\* MAX_RETRIES when the pass took its snapshot, whatever the action's type.
C2_NoRequestAtCeiling ==
    \A p \in PassIds :
        /\ pass[p].pc = "batch" => \A a \in Range(pass[p].cr) : a.retryCount < MAX_RETRIES
        /\ pass[p].pc = "await" => pass[p].others[pass[p].idx].retryCount < MAX_RETRIES

\* C3: when a pass has completed, no action that was at the ceiling in its snapshot
\* is left in the outbox.
C3_CeilingDropped ==
    \A p \in PassIds :
        pass[p].pc = "done" =>
            \A a \in Range(pass[p].cr) \cup Range(pass[p].others) :
                a.retryCount >= MAX_RETRIES => ~InOutbox(a.id)

AlreadyApplied(type, status) ==
    \/ type = "LIBRARY_ADD" /\ status = "conflict"
    \/ type = "LIBRARY_DELETE" /\ status = "notFound"

\* C5: a sequential action answered with an idempotent-conflict status is handled
\* like a success (dequeued, retryCount not incremented).
C5_ConflictIsSuccess ==
    \A p \in PassIds :
        (event.kind \in {"seqOk", "seqFail"} /\ event.pass = p
            /\ AlreadyApplied(Snap(p, event.id).type, event.status)) =>
                event.kind = "seqOk" /\ ~InOutbox(event.id)

\* the server confirmed the action: success, or already applied
Confirmed(type, status) == status = "ok" \/ AlreadyApplied(type, status)

Attempted(p) == {pass[p].tried[i] : i \in 1..Len(pass[p].tried)}

\* C7: a failed or thrown sequential request raises only that action's retryCount,
\* by one, and leaves every other queued action as it was; and no failure ends the
\* pass early: a completed pass has sent a request for every sequential action of
\* its snapshot that was below the ceiling, also after a failed batch request.
C7_FailureIsLocal ==
    /\ [][\A p \in PassIds :
            (pass[p].pc = "await" /\ event'.kind = "seqFail" /\ pass'[p] # pass[p]) =>
                outbox' = updateRetry(outbox, pass[p].others[pass[p].idx].id)]_vars
    /\ [](\A p \in PassIds :
            pass[p].pc = "done" =>
                \A a \in Range(pass[p].others) : ~Skipped(a) => a.id \in Attempted(p))

C7_Witness ==
    \E p \in PassIds :
        /\ event.kind = "seqFail" /\ event.pass = p
        /\ pass[p].pc = "await"
        /\ pass[p].idx > 1

(***************************************************************************)
(* Claims about the progress transaction                                   *)
(***************************************************************************)
Committed == {r \in Requests : req[r].pc = "committed"}

\* the committed updates to chapter c
UpdatesTo(c) == {r \in Committed : req[r].payload.chapterNumber = c}

Carries(row, r) ==
    /\ row.is_read = req[r].payload.isRead
    /\ row.updated_at = req[r].payload.timestamp
    /\ row.device_id = req[r].payload.deviceId
    /\ row.source_used_id = req[r].payload.sourceId

\* C8: among the committed updates to one logical chapter that carry the same
\* client timestamp, the one the server received first is the one the row keeps
\* (its is_read, device_id and source), whatever the order of the commits; a
\* later-received update with that timestamp never replaces it.
C8_FirstReceivedWins ==
    \A c \in Chapters : \A r1, r2 \in UpdatesTo(c) :
        (/\ req[r1].payload.timestamp = req[r2].payload.timestamp
         /\ req[r1].receivedAt < req[r2].receivedAt
         /\ db.reads[c].present
         /\ db.reads[c].updated_at = req[r1].payload.timestamp
         /\ \A q \in UpdatesTo(c) :
                req[q].payload.timestamp = req[r1].payload.timestamp
                    => req[r1].receivedAt <= req[q].receivedAt)
        => /\ Carries(db.reads[c], r1)
           /\ db.reads[c].server_received_at = req[r1].receivedAt

\* two updates with the same timestamp and different is_read, the first-received
\* one committing last
C8_Witness ==
    /\ {1, 2} \subseteq UpdatesTo(1)
    /\ req[1].payload.timestamp = req[2].payload.timestamp
    /\ req[1].payload.isRead # req[2].payload.isRead
    /\ lastDone = req[1].payload
    /\ db.reads[1].present

\* C9: when the committed updates to one logical chapter carry pairwise distinct
\* client timestamps, the row has the is_read, updated_at and device_id of the
\* update with the greatest timestamp, whatever the order of arrival and commit.
C9_LatestTimestampWins ==
    \A c \in catalog.logical :
        (/\ UpdatesTo(c) # {}
         /\ \A r1, r2 \in UpdatesTo(c) :
                r1 # r2 => req[r1].payload.timestamp # req[r2].payload.timestamp)
        => \E r \in UpdatesTo(c) :
            /\ \A q \in UpdatesTo(c) : req[q].payload.timestamp <= req[r].payload.timestamp
            /\ db.reads[c].present
            /\ db.reads[c].is_read = req[r].payload.isRead
            /\ db.reads[c].updated_at = req[r].payload.timestamp
            /\ db.reads[c].device_id = req[r].payload.deviceId

\* the update with the greater timestamp arrived and committed first
C9_Witness ==
    /\ {1, 2} \subseteq UpdatesTo(1)
    /\ req[1].payload.timestamp > req[2].payload.timestamp
    /\ req[1].payload.isRead # req[2].payload.isRead
    /\ lastDone = req[2].payload

\* C10: a request that commits the payload the previous request committed leaves
\* last_read_chapter, xp, chapters_read and the row's is_read / updated_at as they
\* were: sending a payload N times in sequence ends where sending it once ends.
C10_ReplayChangesNothing ==
    [][\A r \in Requests :
        (/\ req[r].pc = "chapter" /\ req'[r].pc = "committed"
         /\ req[r].payload = lastDone)
        => /\ db'.last_read_chapter = db.last_read_chapter
           /\ db'.xp = db.xp
           /\ db'.chapters_read = db.chapters_read
           /\ LET c == req[r].payload.chapterNumber
              IN  /\ db'.reads[c].present = db.reads[c].present
                  /\ db.reads[c].present =>
                        /\ db'.reads[c].is_read = db.reads[c].is_read
                        /\ db'.reads[c].updated_at = db.reads[c].updated_at]_vars

\* the same payload committed twice in a row, the first time with an XP award
C10_Witness ==
    /\ {1, 2} \subseteq Committed
    /\ req[1].payload = req[2].payload
    /\ req[1].gained > 0
    /\ lastDone = req[2].payload

RECURSIVE SumGained(_)
SumGained(S) ==
    IF S = {} THEN 0
    ELSE LET r == CHOOSE q \in S : TRUE
         IN  req[r].gained + SumGained(S \ {r})

\* C11: when every committed request awarded XP, the user's xp equals the initial
\* xp (0) plus the sum of the XP these requests awarded (their xp_gained), also
\* when their transactions overlapped: no award is lost to a stale read of xp.
C11_NoAwardLost ==
    (\A r \in Committed : req[r].gained > 0) => db.xp = SumGained(Committed)

NoDrift == \A r \in Requests : req[r].pc \in {"new", "committed"}

\* C16: for a user whose progress updates all succeeded, the value that
\* reconcileUserStats derives from the library entries equals the chapters_read
\* the progress endpoint has accumulated, so that writing it changes nothing.
C16_ReconcileAgrees ==
    (NoDrift /\ recon.pc = "idle") => SumLastReadChapter(db) = db.chapters_read

(***************************************************************************)
(* Claims about the library and the soft-delete extension                  *)
(***************************************************************************)
\* C12: series.total_follows is never negative, whatever removals (DELETE
\* /api/library/[id], removeFromLibrary) are applied, also when the count is 0
\* at the time of the decrement.
C12_FollowsNeverNegative == total_follows >= 0

\* a removal succeeded whose decrement found the count at 0
C12_Witness ==
    \E k \in LibRequests :
        /\ lreq[k].op \in RemoveOps
        /\ lreq[k].status = "success"
        /\ lreq[k].was = 0
        /\ total_follows = 0

\* C14: a progress PATCH or a removal for the owner's entry issued by another
\* signed-in user never gets past the entry lookup: it is answered 404 (the
\* server action: { error }), or fails before the lookup, and the step leaves the
\* profile and entry rows (xp, last_read_chapter, read rows), the entry's
\* existence and deleted_at, and the series' follow count as they were.
C14_NotOwnerNotFound ==
    [][/\ \A r \in Requests :
            (req[r].caller # Owner /\ req[r].pc # "new" /\ req'[r].pc # req[r].pc) =>
                /\ req'[r].pc \in {"notFound", "failed"}
                /\ req[r].pc = "user"
                /\ UNCHANGED <<db, entries, total_follows>>
       /\ \A k \in LibRequests :
            (lreq[k].pc = "new" /\ lreq'[k].pc # "new" /\ lreq'[k].user # lreq'[k].entry
                /\ lreq'[k].op \in RemoveOps) =>
                /\ lreq'[k].pc = "done"
                /\ lreq'[k].status = NotFoundAnswer(lreq'[k].op)
                /\ UNCHANGED <<db, entries, total_follows>>]_vars

\* the other user's PATCH and DELETE were both answered 404, the entry is live
C14_Witness ==
    /\ \E r \in Requests : req[r].caller # Owner /\ req[r].pc = "notFound"
    /\ \E k \in LibRequests :
        lreq[k].user # Owner /\ lreq[k].op = "DELETE" /\ lreq[k].status = "404"
    /\ entries[Owner] = LiveEntry
    /\ total_follows = 1

Deleted(e) == entries[e].exists /\ entries[e].deleted_at # NULL

\* some read issued on a soft-delete model through the extended client returns row e
Returned(e) ==
    \E model \in SOFT_DELETE_MODELS : \E operation \in ReadOperations :
        \E where \in WheresOf(operation) :
            e \in allOperations(entries, model, operation, Args(where, "keep")).rows

LiveRows == {e \in Users : entries[e].exists /\ entries[e].deleted_at = NULL}

DeadLetters(j) == SelectSeq(workerFailure, LAMBDA row : row.job_id = j)

\* C17: a wrapped job that has failed for good (an unrecoverable error on any
\* attempt, or its last allowed attempt failing) has exactly one row in the
\* WorkerFailure table, holding the queue name, the job id, the payload, the
\* error message and the attempt count; a job that completed has none.
C17_OneDeadLetterPerFailedJob ==
    \A j \in Jobs :
        /\ jobs[j].state = "failed" =>
               /\ Len(DeadLetters(j)) = 1
               /\ DeadLetters(j)[1].queue_name = QueueName
               /\ DeadLetters(j)[1].payload = jobs[j].data
               /\ DeadLetters(j)[1].error_message \in Outcomes \ {"ok"}
               /\ DeadLetters(j)[1].attempts_made = jobs[j].attemptsMade
        /\ jobs[j].state = "completed" => Len(DeadLetters(j)) = 0

(***************************************************************************)
(* Claims about withRetry (checked under SpecRetry)                        *)
(***************************************************************************)
\* not-found, unique-constraint conflict, validation failure
IsPermanent(error) ==
    \/ error.code \in {"P2025", "P2002"}
    \/ error.name \in {"PrismaClientValidationError", "ApiError"}

\* C18: when the operation fails with a permanent error (P2025, P2002 or a
\* validation failure), withRetry does not invoke it again and rethrows that
\* error: such an error is the last one the operation threw and the call has
\* ended with it; in particular the operation ran exactly once when its first
\* failure was permanent.
C18_PermanentErrorNotRetried ==
    \A i \in 1..Len(retry.errors) :
        IsPermanent(retry.errors[i]) =>
            /\ i = Len(retry.errors)
            /\ retry.calls = i
            /\ retry.state = "thrown"
            /\ retry.lastError = retry.errors[i]

(***************************************************************************)
(* Claims about the crawl scheduler (checked under SpecScheduler)          *)
(***************************************************************************)
\* the step is a run of the scheduler
RunStep == sched'.runs # sched.runs

Due(s) == sources[s].next_check_at <= sched.now

\* C19 as stated: in every run no source of a tier C series is in the
\* enqueued batch, whatever its next_check_at, and every due source of a tier
\* A series is.
C19_EveryRunEnqueuesTierA ==
    [][RunStep =>
          \A s \in Sources :
              /\ sources[s].tier = "C" => s \notin sched'.batch
              /\ sources[s].tier = "A" /\ Due(s) => s \in sched'.batch]_vars

\* C19, amended: in every run no source of a tier C series is in the
\* enqueued batch, whatever its next_check_at; a run that does not skip the
\* cycle for backlog enqueues every due source of a tier A series that is
\* below the failure ceiling.
C19_TierCNeverEnqueued ==
    [][RunStep =>
          \A s \in Sources :
              /\ sources[s].tier = "C" => s \notin sched'.batch
              /\ /\ sources[s].tier = "A"
                 /\ Due(s)
                 /\ sources[s].failure_count < FailureCeiling
                 /\ ~sched'.skipped
                 => s \in sched'.batch]_vars

\* a run has enqueued the due source of a tier A series and left out the due
\* source of a tier C series
C19_Witness ==
    /\ ~sched.skipped
    /\ \E a \in sched.batch : sources[a].tier = "A"
    /\ \E c \in Sources \ sched.batch : sources[c].tier = "C" /\ Due(c)

NextChecks(rows) == [s \in Sources |-> rows[s].next_check_at]

SamePrefix(ip, range, bits) ==
    \A b \in BitPositions : b >= 32 - bits => (b \in ToInt(ip) <=> b \in ToInt(range))

\* C26: isIpInRange answers true exactly when the ip and the range address
\* agree on their first `bits` bits, for every prefix length from 0 to 32: every
\* address is in a range of prefix length 0, and prefix length 32 matches
\* only the identical address.
C26_MatchesPrefix ==
    ipq.asked => (ipq.answer <=> SamePrefix(ipq.ip, ipq.range, ipq.bits))

(***************************************************************************)
(* Claims about the sequential loop of a drain pass (checked under Spec)   *)
(***************************************************************************)
\* the step issues the request of a sequential action of pass p
Issues(p) ==
    /\ pass'[p].pc = "await"
    /\ pass[p].pc = "await" => pass'[p].idx # pass[p].idx

LastTried(p) == pass[p].tried[Len(pass[p].tried)]

\* C27: within one drain pass the requests of the non-CHAPTER_READ actions are
\* issued in ascending order of client timestamp, and a request is issued only
\* in the step that received the answer (or the error) of the pass's previous
\* request: at most one sequential request is in flight.
C27_OneRequestAtATimeInOrder ==
    /\ [](\A p \in PassIds :
            \A i, j \in 1..Len(pass[p].tried) :
                i < j => Snap(p, pass[p].tried[i]).timestamp
                             <= Snap(p, pass[p].tried[j]).timestamp)
    /\ [][\A p \in PassIds :
            Issues(p) =>
                /\ pass'[p].tried # <<>>
                /\ pass'[p].tried[Len(pass'[p].tried)] = pass'[p].others[pass'[p].idx].id
                /\ pass[p].pc = "await" =>
                       /\ event'.kind \in {"seqOk", "seqFail"}
                       /\ event'.pass = p
                       /\ event'.id = LastTried(p)
                       /\ pass'[p].tried = Append(pass[p].tried, pass'[p].others[pass'[p].idx].id)]_vars

\* a pass has issued its second sequential request after the first was answered
C27_Witness ==
    \E p \in PassIds :
        /\ pass[p].pc = "await"
        /\ Len(pass[p].tried) = 2
        /\ event.kind \in {"seqOk", "seqFail"}
        /\ event.id = pass[p].tried[1]
        /\ Snap(p, pass[p].tried[1]).timestamp < Snap(p, pass[p].tried[2]).timestamp

(***************************************************************************)
(* Claims about overlapping progress transactions (checked under SpecLww)  *)
(***************************************************************************)
\* C28: no PATCH /progress request lowers the entry's last_read_chapter,
\* whatever the order of the requests and also when their transactions overlap.
C28_LastReadNeverDecreases ==
    [][db'.last_read_chapter >= db.last_read_chapter]_vars

\* the committed requests that awarded chapter XP for chapter c
Awarded(c) ==
    {r \in Committed : req[r].payload.chapterNumber = c /\ shouldAwardXp(req[r])}

\* C29: progress updates that mark the same chapter read, processed
\* concurrently, award chapter XP and increment chapters_read at most once in
\* total, as their sequential replay does.
C29_SameChapterAwardedOnce ==
    /\ \A c \in Chapters : Cardinality(Awarded(c)) <= 1
    /\ db.chapters_read <= Cardinality({c \in Chapters : Awarded(c) # {}})

(***************************************************************************)
(* Claims about POST /api/library (checked under SpecSequence)             *)
(***************************************************************************)
Live(u) == entries[u].exists /\ entries[u].deleted_at = NULL

\* the step completes the POST request k
PostDone(k) == lreq[k].pc = "upsert" /\ lreq'[k].pc = "done"

\* C30: POST requests of one user for the series, one after the other, leave
\* the user with one live entry; a request raises total_follows by 1 when the
\* user had no live entry (none at all, or a removed one) and leaves it as it
\* was otherwise, so that any number of repetitions raise it by 1 in total.
C30_OneFollowPerLiveEntry ==
    [][\A k \in LibRequests :
          PostDone(k) =>
              /\ entries'[lreq[k].user].exists
              /\ entries'[lreq[k].user].deleted_at = NULL
              /\ \A u \in Users \ {lreq[k].user} : entries'[u] = entries[u]
              /\ total_follows' = total_follows + (IF Live(lreq[k].user) THEN 0 ELSE 1)]_vars

\* a user has added the series again after removing it and the count went up by one
C30_Witness ==
    \E j, k \in LibRequests :
        /\ j < k
        /\ lreq[j].op \in RemoveOps /\ lreq[j].status = "success"
        /\ lreq[k].op = "POST" /\ lreq[k].pc = "done" /\ lreq[k].user = lreq[j].user
        /\ ~lreq[k].found
        /\ total_follows = lreq[k].was + 1
        /\ Live(lreq[k].user)

(***************************************************************************)
(* Claims about chapter ingestion (checked under SpecIngest)               *)
(***************************************************************************)
\* the calls that have ingested chapter c
Ingested(c) == {i \in Ingests : ing[i].pc = "done" /\ ing[i].report.chapterNumber = c}

\* C22: after one chapter number was ingested from any number of sources, in
\* any order or concurrently, there is exactly one LogicalChapter for it, and
\* each of those sources has its own ChapterSource of that chapter.
C22_OneLogicalChapter ==
    \A c \in Chapters :
        /\ logicalChapters[c] <= 1
        /\ Ingested(c) # {} =>
               /\ logicalChapters[c] = 1
               /\ \A i \in Ingested(c) :
                      chapterSources[<<ing[i].report.seriesSourceId, c>>] = 1

\* two sources have ingested the same chapter number
C22_Witness ==
    \E i, j \in Ingests :
        /\ ing[i].pc = "done" /\ ing[j].pc = "done"
        /\ ing[i].report.chapterNumber = ing[j].report.chapterNumber
        /\ ing[i].report.seriesSourceId # ing[j].report.seriesSourceId
        /\ ing[i].newLogical /\ ~ing[j].newLogical

\* C23: a report ingested once or several times leaves exactly one
\* ChapterSource row for its key and exactly one FeedEntry for its logical
\* chapter; further sources of that chapter add no FeedEntry.
C23_OneFeedEntry ==
    /\ \A b \in Bindings : chapterSources[b] <= 1
    /\ \A c \in Chapters :
        /\ feedEntries[c] <= 1
        /\ Ingested(c) # {} => feedEntries[c] = 1

\* the same report was ingested twice
C23_Witness ==
    \E i, j \in Ingests :
        /\ i # j
        /\ ing[i].pc = "done" /\ ing[j].pc = "done"
        /\ ing[i].report = ing[j].report
        /\ ing[i].newFeed /\ ~ing[j].newSource

(***************************************************************************)
(* Claims about gap recovery (checked under SpecGap)                       *)
(***************************************************************************)
\* the integer chapter numbers observed, the sentinel excluded
Observed == {n \in gap.chapters : n # SENTINEL /\ IsInteger(n)}

\* the integers strictly between the least and the greatest observed integer
\* chapter number that are not chapter numbers of the series
Absent ==
    {n \in ChapterNumbers :
        /\ IsInteger(n)
        /\ n \notin gap.chapters
        /\ \E lo, hi \in Observed : lo < n /\ n < hi}

\* C21: gap recovery reports exactly the integers strictly between the least
\* and the greatest observed integer chapter number that are absent from the
\* series' chapter numbers (sentinel excluded); with at least one it returns
\* status 'triggered' and their number as gapCount, with none a no-op result.
C21_GapsAreTheAbsentIntegers ==
    gap.ran =>
        /\ gap.gaps = Absent
        /\ Absent # {} =>
               /\ gap.result.status = "triggered"
               /\ gap.result.gapCount = Cardinality(Absent)
               /\ gap.result.sourceCount = Cardinality(HealthySources)
        /\ Absent = {} => gap.result.status # "triggered" /\ waiting = 0

\* a run on chapters with a half number and the sentinel among them found two gaps
C21_Witness ==
    /\ gap.ran
    /\ SENTINEL \in gap.chapters
    /\ \E n \in gap.chapters : ~IsInteger(n)
    /\ gap.result.status = "triggered"
    /\ gap.result.gapCount = 2

(***************************************************************************)
(* Claims about the rate limiter (checked under SpecRate)                  *)
(***************************************************************************)
\* 200 ms, in ticks
FairnessWait == 2

\* the number of callers suspended in acquireToken
Suspended == Cardinality({w \in Workers : acq[w].status = "waiting"})

\* C24: with burst capacity 10, rate 5 a second and a full bucket, the first
\* ten acquisitions return without waiting; an acquisition asked for at the
\* same instant after them returns only 200 ms later or more; and no call is
\* dropped (every call has returned or is still suspended).
C24_EleventhWaits ==
    /\ \A i \in 1..Len(grants) :
           /\ i <= CAPACITY => grants[i].at = grants[i].asked
           /\ i > CAPACITY /\ grants[i].asked = 0 => grants[i].at >= FairnessWait
    /\ calls = Len(grants) + Suspended
    /\ act = NoActionWrites
    /\ feedDb = 0
    /\ fver = 0
    /\ fcache = [v \in Versions |-> NotCached]
    /\ patch = "idle"
    /\ gets = [g \in Gets |-> NoGet]
    /\ pg = NoPaging
    /\ rl = NoLimiter
    /\ mg = NoMerge

\* the eleventh acquisition was asked for at the first instant and has returned
C24_Witness ==
    /\ Len(grants) > CAPACITY
    /\ grants[CAPACITY + 1].asked = 0
    /\ \A i \in 1..CAPACITY : grants[i].at = 0

\* C25: with several workers acquiring concurrently, the tokens granted over
\* any interval never exceed capacity + elapsed * rate, and no token is taken
\* twice (the grants and what is left in the bucket never exceed the initial
\* capacity plus the refill so far).
C25_NeverOverGranted ==
    /\ \A i, j \in 1..Len(grants) :
           i <= j =>
               (j - i + 1) * TOKEN <= CAPACITY * TOKEN + (grants[j].at - grants[i].at) * RATE
    /\ bucket.tokens >= 0
    /\ Len(grants) * TOKEN + bucket.tokens <= CAPACITY * TOKEN + bucket.lastRefillAt * RATE

\* after an idle start the burst is used up, a refilled token has been
\* granted and a worker is suspended while the bucket is empty
C25_Witness ==
    /\ Len(grants) > CAPACITY
    /\ grants[1].at > 0
    /\ \E w \in Workers : acq[w].status = "waiting"

(***************************************************************************)
(* Claims about processResolution (checked under SpecMerge)                *)
(***************************************************************************)
\* C32: after processResolution has merged an entry into the user's existing
\* entry of the series, the surviving entry's last_read_chapter is the
\* greater of the two entries' progress as of the merge, also when a progress
\* update to the redundant entry committed after the job's first read.
C32_MergeKeepsGreatestProgress ==
    mg.pc = "merged" => mg.duplicate = mg.asOfMerge


(***************************************************************************)
(* Further claims about the outbox drain pass                              *)
(***************************************************************************)
\* the step in which pass p learns that its batch request failed
BatchFailStep(p) ==
    /\ pass[p].pc = "batch"
    /\ pass'[p] # pass[p]
    /\ event'.kind = "batchFail" /\ event'.pass = p

\* C31: when the CHAPTER_READ batch request as a whole fails (a non-OK status
\* or a thrown error), no action is dequeued, each CHAPTER_READ action of the
\* snapshot has its retryCount increased by exactly 1 and every other queued
\* action keeps its count.
C31_BatchFailureRetriesAll ==
    [][\A p \in PassIds :
        BatchFailStep(p) =>
            /\ Ids(outbox') = Ids(outbox)
            /\ \A a \in Range(pass[p].cr) :
                   /\ InOutbox(a.id)
                   /\ Queued(a.id)' = [Queued(a.id) EXCEPT !.retryCount = @ + 1]
            /\ \A a \in Range(outbox) :
                   a.id \notin Ids(pass[p].cr) => Queued(a.id)' = a]_vars

\* a batch of two CHAPTER_READ actions failed as a whole, by a thrown error
C31_Witness ==
    \E p \in PassIds :
        /\ event.kind = "batchFail" /\ event.pass = p /\ event.status = "throw"
        /\ Len(pass[p].cr) = 2
        /\ \A a \in Range(pass[p].cr) : RetriedOnce(a)


\* C33: in every reachable outbox state every action's retryCount is at most
\* MAX_RETRIES.
C33_RetryCountAtMostCeiling ==
    \A a \in Range(outbox) : a.retryCount <= MAX_RETRIES

\* the same for the actions of the sequential path only
SequentialAtMostCeiling ==
    \A a \in Range(outbox) : a.type # "CHAPTER_READ" => a.retryCount <= MAX_RETRIES


\* the actions carried by the request pass p is awaiting
InFlight(p) ==
    CASE pass[p].pc = "batch" -> Ids(pass[p].cr)
      [] pass[p].pc = "await" -> {pass[p].others[pass[p].idx].id}
      [] OTHER -> {}

\* C34 (checked under SpecOverlap): when processOutbox is invoked again while
\* an earlier invocation awaits a response, no action is carried by the
\* requests in flight of both invocations.
C34_OneRequestInFlight ==
    \A p, q \in PassIds : p # q => InFlight(p) \cap InFlight(q) = {}

\* C34, second half: no action has its retryCount raised by both invocations
\* out of one snapshot value.
C34_NotRetriedTwice ==
    \A p, q \in PassIds :
        (p # q /\ pass[p].pc = "done" /\ pass[q].pc = "done") =>
            \A a \in Range(pass[p].cr) \cap Range(pass[q].cr) :
                InOutbox(a.id) => Queued(a.id).retryCount <= a.retryCount + 1


(***************************************************************************)
(* Further claims about the library (checked under SpecLibrary)            *)
(***************************************************************************)
\* no add or remove is under way
NoLibraryRequestOpen == \A k \in LibRequests : lreq[k].pc \in {"new", "done"}

\* the users whose entry of the series is live (not soft-deleted)
LiveEntries == {u \in Users : Live(u)}

\* C35: starting with total_follows equal to the number of live library
\* entries of the series, the two are equal again after any sequence of adds
\* and removes through POST /api/library, DELETE /api/library/[id],
\* addToLibrary and removeFromLibrary.
C35_FollowsEqualLiveEntries ==
    NoLibraryRequestOpen => total_follows = Cardinality(LiveEntries)


\* the request that arrived last
LastLibRequest == NextLibRequest - 1

\* C37 (checked under SpecSequence): DELETE /api/library/[id] is all or
\* nothing. When a removal that found its entry has ended, either the entry is
\* soft-deleted and the follow count was decremented (the request succeeded),
\* or the request failed and the entry is live as before.
C37_RemovalAllOrNothing ==
    \A k \in LibRequests :
        (k = LastLibRequest /\ lreq[k].pc = "done" /\ lreq[k].op = "DELETE" /\ lreq[k].found) =>
            IF lreq[k].status = "success"
            THEN ~Live(lreq[k].entry)
            ELSE Live(lreq[k].entry)


(***************************************************************************)
(* Claims about the two progress paths (checked under SpecPaths)           *)
(***************************************************************************)
\* the writes for which PATCH progress awarded XP
PatchAwarded == {r \in Requests : req[r].pc = "committed" /\ req[r].gained > 0}

\* both paths have applied the same writes
SameWritesApplied ==
    /\ \A r \in Requests : ~Active(r)
    /\ act.applied = Cardinality({r \in Requests : req[r].pc = "committed"})

\* C36: after the same sequence of progress writes, updateProgress and PATCH
\* progress leave the same last_read_chapter on the entry and have awarded XP
\* for the same writes.
C36_PathsAgree ==
    SameWritesApplied =>
        /\ act.last_read_chapter = db.last_read_chapter
        /\ act.awarded = PatchAwarded


(***************************************************************************)
(* Claims about the activity feed cache (checked under SpecFeedCache)      *)
(***************************************************************************)
\* C38: once a progress update has returned, GET /api/feed/activity never
\* serves a cached response computed from database state that precedes the
\* update's commit. (floor is the number of updates that had returned when the
\* GET request began.)
C38_NoStaleCachedFeed ==
    \A g \in Gets :
        (gets[g].pc = "done" /\ gets[g].fromCache) => gets[g].served >= gets[g].floor


(***************************************************************************)
(* Claims about paging through the updates feed (checked under SpecPaging) *)
(***************************************************************************)
\* C39: a page asked for with a cursor holds only items strictly older than
\* the cursor, and no item of it was returned on an earlier page.
C39_PagesAreDisjointAndOlder ==
    /\ pg.used # 0 => \A i \in 1..Len(pg.items) : pg.items[i] < pg.used
    /\ Range(pg.items) \cap pg.seen = {}

\* C39, the end of paging: a client that has followed next_cursor as often as
\* the feed has items has been told has_more = false.
C39_PagingEnds ==
    pg.fetched > Cardinality(pg.feed) => ~pg.has_more


(***************************************************************************)
(* Claims about checkRateLimit (checked under SpecLimiter)                 *)
(***************************************************************************)
\* C40: for the same timestamped requests on one key the redis path and the
\* in-memory fallback make the same decision on every request.
C40_PathsDecideAlike ==
    rl.asked > 0 => rl.redisGrants = rl.memoryGrants
====
